---- MODULE Spec2Model ----
(***************************************************************************)
(* Verification model of the verte compiler front end: the token tables,   *)
(* the recursive-descent parser (src/frontend/parser/parser.cpp) and the   *)
(* lexer (src/frontend/lexer/lexer.cpp).                                    *)
(*                                                                         *)
(* The parser and the lexer are sequential programs.  Each is modelled as  *)
(* a state machine whose steps are the iterations of its top-level loop    *)
(* (Parser::parse, Lexer::allTokens); the recursive procedures called by   *)
(* one iteration are RECURSIVE operators translated from the code.         *)
(***************************************************************************)
EXTENDS Integers, Sequences, FiniteSets, TLC

VARIABLES
  tokens,     \* Parser::tokens, the token vector handed to the parser
  index,      \* Parser::index, the token cursor (0-based, as in the code)
  body,       \* the local `body` of Parser::parse
  pstate,     \* position of Parser::parse: "parsing", "done" or "error"
  result,     \* the ProgramNode returned by Parser::parse (NoNode before)
  prevIndex,  \* the cursor at the start of the last iteration of parse()
  source,     \* Lexer::source, a sequence of characters
  lexIndex,   \* Lexer::index (0-based, as in the code)
  line,       \* Lexer::line
  column,     \* Lexer::column
  lexTokens,  \* the local `tokens` of Lexer::allTokens
  lexState,   \* position of Lexer::allTokens: "lexing", "done" or "error"
  consumed,   \* characters consumed by the last nextToken call
  ast,        \* the ProgramNode handed to the emitter
  child,      \* position of Codegen::visit(ProgramNode) in node.getBody()
  codegen,    \* the Codegen object: constants, globals, currentFunc, the
              \* LLVM module and the builder's insertion block and output
  cgState,    \* "lowering", "done", "error" (CodegenError) or "abort"
  llvmAsserts, \* whether the LLVM library is built with assertions
  mainPc,     \* position of main and of Compiler::compile
  printAst,   \* the option --print-ast
  printIr,    \* the option --print-ir
  outputPath, \* outputFile of main
  stages,     \* the stages main has run, in order
  disk,       \* the files the run has left on disk
  stdout,     \* what main has printed
  exitCode,   \* "none" while main runs, then "0", "-1" or "abort"
  compiled,   \* the value Compiler::compile returns
  loggerClass, \* "verte" or "excerpt": the Logger class the threads use
  loggerOf,   \* the Logger object of each thread
  globalLevel, \* logging::globalLevel
  logPc,      \* position of each thread in Logger::log
  logCall,    \* the number of the last call of each thread
  logLevel,   \* the level of the last call of log
  calls,      \* for each call of log so far, whether log went on to write
  output,     \* what has been written to the stream the loggers share
  mutex       \* the holder of Logger::mutex of each Logger object, or 0

vars == <<tokens, index, prevIndex, body, pstate, result,
          source, lexIndex, line, column, lexTokens, lexState, consumed,
          ast, child, codegen, cgState, llvmAsserts,
          mainPc, printAst, printIr, outputPath, stages, disk, stdout,
          exitCode, compiled,
          loggerClass, loggerOf, globalLevel, logPc, logCall, logLevel, calls,
          output,
          mutex>>

parserVars == <<tokens, index, prevIndex, body, pstate, result>>
lexerVars == <<source, lexIndex, line, column, lexTokens, lexState, consumed>>
codegenVars == <<ast, child, codegen, cgState, llvmAsserts>>
driverVars == <<mainPc, printAst, printIr, outputPath, stages, disk, stdout,
                exitCode, compiled>>
loggerVars == <<loggerClass, loggerOf, globalLevel, logPc, logCall, logLevel, calls,
                output, mutex>>

(***************************************************************************)
(* Token tables (defs.h, token.hpp).                                       *)
(***************************************************************************)
SYMBOLS ==
  ("(" :> "LPAREN") @@ (")" :> "RPAREN") @@ ("{" :> "LBRACE") @@
  ("}" :> "RBRACE") @@ ("[" :> "LBRACKET") @@ ("]" :> "RBRACKET") @@
  ("," :> "COMMA") @@ ("." :> "DOT") @@ (":" :> "COLON") @@
  (";" :> "SEMICOLON")

OPERATORS ==
  ("=" :> "ASSIGN") @@ ("!" :> "BANG") @@ ("-" :> "MINUS") @@
  ("+" :> "PLUS") @@ ("*" :> "STAR") @@ ("/" :> "SLASH") @@
  ("%" :> "MOD") @@ ("<" :> "LESS") @@ (">" :> "GREATER") @@
  ("<=" :> "LT_EQUAL") @@ (">=" :> "GT_EQUAL") @@ ("==" :> "EQUAL") @@
  ("!=" :> "NEQ_EQUAL")

KEYWORDS ==
  ("if" :> "IF") @@ ("then" :> "THEN") @@ ("else" :> "ELSE") @@
  ("or" :> "OR") @@ ("and" :> "AND") @@ ("true" :> "TRUE") @@
  ("false" :> "FALSE") @@ ("const" :> "CONST") @@ ("for" :> "FOR") @@
  ("while" :> "WHILE") @@ ("fn" :> "FN") @@ ("return" :> "RETURN")

\* The string literal "\0" converts to the empty std::string.
TYPES ==
  ("IDENTIFIER" :> "IDENTIFIER") @@ ("STRING" :> "STRING") @@
  ("NUMBER" :> "NUMBER") @@ ("INVALID" :> "INVALID") @@ ("" :> "EOS")

RESERVED == SYMBOLS @@ OPERATORS @@ KEYWORDS @@ TYPES

ATOMIC == SYMBOLS @@ OPERATORS

BINARY_OPERATOR_TYPES ==
  {"PLUS", "MINUS", "STAR", "SLASH", "EQUAL", "NEQ_EQUAL", "LESS",
   "GREATER", "LT_EQUAL", "GT_EQUAL", "OR", "AND"}

UNARY_OPERATOR_TYPES == {"PLUS", "MINUS", "BANG"}

PRECEDENCE ==
  ("OR" :> 1) @@ ("EQUAL" :> 2) @@ ("NEQ_EQUAL" :> 2) @@ ("LESS" :> 3) @@
  ("GREATER" :> 3) @@ ("LT_EQUAL" :> 3) @@ ("GT_EQUAL" :> 3) @@
  ("PLUS" :> 4) @@ ("MINUS" :> 4) @@ ("STAR" :> 5) @@ ("SLASH" :> 5) @@
  ("BANG" :> 6)

getPrecedence(type) ==
  IF type \in DOMAIN PRECEDENCE THEN PRECEDENCE[type] ELSE -1

\* Token(value, type, meta)
Token(value, type, ln, col) ==
  [type |-> type, value |-> value, line |-> ln, column |-> col]

(***************************************************************************)
(* AST nodes (ast.hpp) and TypeInfo (types.hpp).                           *)
(***************************************************************************)
toEnum(type) ==
  IF type = "int" THEN "INTEGER"
  ELSE IF type = "float" THEN "FLOAT"
  ELSE IF type = "double" THEN "DOUBLE"
  ELSE IF type = "string" THEN "STRING"
  ELSE IF type = "bool" THEN "BOOL"
  ELSE IF type = "void" THEN "VOID"
  ELSE "UNKNOWN"

TypeInfo(dataType, name) == [dataType |-> dataType, name |-> name]

Parameter(name, type) == [name |-> name, type |-> type]

NoNode == [kind |-> "None"]

ProgramNode(b) == [kind |-> "Program", body |-> b]
LiteralNode(value, dataType) ==
  [kind |-> "Literal", value |-> value, type |-> dataType]
VarDeclNode(name, type, value, isConst) ==
  [kind |-> "VarDecl", name |-> name, type |-> type, value |-> value,
   isConst |-> isConst]
AssignNode(name, value) == [kind |-> "Assign", name |-> name, value |-> value]
VariableNode(name) == [kind |-> "Variable", name |-> name]
BinaryNode(lhs, rhs, op) ==
  [kind |-> "Binary", lhs |-> lhs, rhs |-> rhs, op |-> op]
UnaryNode(operand, op) == [kind |-> "Unary", operand |-> operand, op |-> op]
ProtoNode(name, params, retType) ==
  [kind |-> "Proto", name |-> name, params |-> params, retType |-> retType]
BlockNode(b) == [kind |-> "Block", body |-> b]
FuncDeclNode(proto, blk) == [kind |-> "FuncDecl", proto |-> proto, body |-> blk]
CallNode(callee, args) == [kind |-> "Call", callee |-> callee, args |-> args]
ReturnNode(value) == [kind |-> "Return", value |-> value]

(***************************************************************************)
(* Parser (parser.cpp).  Every procedure takes the token vector ts and the *)
(* cursor i at its entry and returns the node it built together with the   *)
(* cursor at its exit; ok = FALSE is the ParserError thrown by error(),    *)
(* with idx the cursor at the throw.                                       *)
(***************************************************************************)
\* The element of the vector that currentToken() reads when index = i.
ReadPos(ts, i) == IF i >= Len(ts) THEN Len(ts) - 1 ELSE i

currentToken(ts, i) == ts[ReadPos(ts, i) + 1]

peekToken(ts, i, offset) == ts[ReadPos(ts, i + offset) + 1]

\* match(type): TRUE iff the current token has this type (the caller then
\* continues at i + 1).
match(ts, i, type) == currentToken(ts, i).type = type

Ok(n, i) == [ok |-> TRUE, node |-> n, idx |-> i]

\* error(message): throws ParserError at the current token.
error(i) == [ok |-> FALSE, node |-> NoNode, idx |-> i]

\* A call that may throw: when the callee r threw, the ParserError leaves
\* the caller as well; otherwise the caller continues with r's result.
Then(r, K(_)) == IF ~r.ok THEN r ELSE K(r)

RECURSIVE parseStmt(_, _)
RECURSIVE parseBlockLoop(_, _, _)
RECURSIVE parseBinary(_, _, _)
RECURSIVE parseBinaryLoop(_, _, _, _)
RECURSIVE parseUnary(_, _)
RECURSIVE parsePrimary(_, _)
RECURSIVE parseCallLoop(_, _, _)
RECURSIVE parseParamsLoop(_, _, _)

parseExpr(ts, i) == parseBinary(ts, i, 0)

parseType(ts, i) ==
  IF ~match(ts, i, "IDENTIFIER") THEN error(i)
  ELSE Ok(TypeInfo(toEnum(currentToken(ts, i).value),
                   currentToken(ts, i).value), i + 1)

parseCall(ts, i, callee) ==
  IF ~match(ts, i, "LPAREN") THEN error(i)
  ELSE Then(IF ~(currentToken(ts, i + 1).type = "RPAREN")
            THEN parseCallLoop(ts, i + 1, <<>>)
            ELSE Ok(<<>>, i + 1),
            LAMBDA a :
              IF ~match(ts, a.idx, "RPAREN") THEN error(a.idx)
              ELSE Ok(CallNode(callee, a.node), a.idx + 1))

\* The do-while loop of parseCall; node is the argument vector.
parseCallLoop(ts, i, args) ==
  Then(parseExpr(ts, i),
       LAMBDA e :
         IF currentToken(ts, e.idx).type = "RPAREN"
           THEN Ok(Append(args, e.node), e.idx)
         ELSE IF ~match(ts, e.idx, "COMMA") THEN error(e.idx)
         \* else if (match(COMMA) && peekToken().is(RPAREN))
         ELSE IF match(ts, e.idx + 1, "COMMA") /\
                 peekToken(ts, e.idx + 2, 1).type = "RPAREN"
           THEN error(e.idx + 2)
         ELSE parseCallLoop(ts,
                IF match(ts, e.idx + 1, "COMMA") THEN e.idx + 2
                ELSE e.idx + 1,
                Append(args, e.node)))

\* Mutant: the call test looks one token too far (peekToken() after the
\* identifier was consumed).
parsePrimary_peek(ts, i) ==
  IF match(ts, i, "STRING")
    THEN Ok(LiteralNode(currentToken(ts, i).value, "STRING"), i + 1)
  ELSE IF match(ts, i, "NUMBER")
    THEN Ok(LiteralNode(currentToken(ts, i).value, "INTEGER"), i + 1)
  ELSE IF match(ts, i, "TRUE") \/ match(ts, i, "FALSE")
    THEN Ok(LiteralNode(currentToken(ts, i).value, "BOOL"), i + 1)
  ELSE IF match(ts, i, "IDENTIFIER")
    THEN IF peekToken(ts, i + 1, 1).type = "LPAREN"
         THEN parseCall(ts, i + 1, VariableNode(currentToken(ts, i).value))
         ELSE Ok(VariableNode(currentToken(ts, i).value), i + 1)
  ELSE IF match(ts, i, "LPAREN")
    THEN Then(parseExpr(ts, i + 1),
              LAMBDA e :
                IF ~match(ts, e.idx, "RPAREN") THEN error(e.idx)
                ELSE Ok(e.node, e.idx + 1))
  ELSE error(i)

parsePrimary(ts, i) ==
  IF match(ts, i, "STRING")
    THEN Ok(LiteralNode(currentToken(ts, i).value, "STRING"), i + 1)
  ELSE IF match(ts, i, "NUMBER")
    THEN Ok(LiteralNode(currentToken(ts, i).value, "INTEGER"), i + 1)
  ELSE IF match(ts, i, "TRUE") \/ match(ts, i, "FALSE")
    THEN Ok(LiteralNode(currentToken(ts, i).value, "BOOL"), i + 1)
  ELSE IF match(ts, i, "IDENTIFIER")
    THEN IF currentToken(ts, i + 1).type = "LPAREN"
         THEN parseCall(ts, i + 1, VariableNode(currentToken(ts, i).value))
         ELSE Ok(VariableNode(currentToken(ts, i).value), i + 1)
  ELSE IF match(ts, i, "LPAREN")
    THEN Then(parseExpr(ts, i + 1),
              LAMBDA e :
                IF ~match(ts, e.idx, "RPAREN") THEN error(e.idx)
                ELSE Ok(e.node, e.idx + 1))
  ELSE error(i)

parseUnary(ts, i) ==
  IF currentToken(ts, i).type \in UNARY_OPERATOR_TYPES
  THEN Then(parseUnary(ts, i + 1),
            LAMBDA e : Ok(UnaryNode(e.node, currentToken(ts, i).value), e.idx))
  ELSE parsePrimary(ts, i)

parseBinary(ts, i, min) ==
  Then(parseUnary(ts, i), LAMBDA l : parseBinaryLoop(ts, l.idx, min, l.node))

\* The while loop of parseBinary with the lhs built so far.
parseBinaryLoop(ts, i, min, lhs) ==
  IF getPrecedence(currentToken(ts, i).type) >= min /\
     currentToken(ts, i).type \in BINARY_OPERATOR_TYPES
  THEN Then(parseBinary(ts, i + 1, getPrecedence(currentToken(ts, i).type) + 1),
            LAMBDA r :
              parseBinaryLoop(ts, r.idx, min,
                BinaryNode(lhs, r.node, currentToken(ts, i).value)))
  ELSE Ok(lhs, i)

\* expr ';' as parsed by parseVarDecl, parseAssign, parseReturn and
\* parseExprStmt
parseExprSemi(ts, i) ==
  Then(parseExpr(ts, i),
       LAMBDA e :
         IF ~match(ts, e.idx, "SEMICOLON") THEN error(e.idx)
         ELSE Ok(e.node, e.idx + 1))

\* parseVarDecl after the optional `const`
parseVarDeclRest(ts, i, isConst) ==
  IF ~match(ts, i, "IDENTIFIER") THEN error(i)
  ELSE IF ~match(ts, i + 1, "COLON") THEN error(i + 1)
  ELSE Then(parseType(ts, i + 2),
            LAMBDA type :
              IF ~match(ts, type.idx, "ASSIGN") THEN error(type.idx)
              ELSE Then(parseExprSemi(ts, type.idx + 1),
                        LAMBDA e :
                          Ok(VarDeclNode(currentToken(ts, i).value, type.node,
                                         e.node, isConst), e.idx)))

parseVarDecl(ts, i) ==
  IF match(ts, i, "CONST") THEN parseVarDeclRest(ts, i + 1, TRUE)
  ELSE parseVarDeclRest(ts, i, FALSE)

parseAssign(ts, i) ==
  IF ~match(ts, i, "IDENTIFIER") THEN error(i)
  ELSE IF ~match(ts, i + 1, "EQUAL") THEN error(i + 1)
  ELSE Then(parseExprSemi(ts, i + 2),
            LAMBDA e : Ok(AssignNode(currentToken(ts, i).value, e.node), e.idx))

parseParam(ts, i) ==
  IF ~match(ts, i, "IDENTIFIER") THEN error(i)
  ELSE IF ~match(ts, i + 1, "COLON") THEN error(i + 1)
  ELSE Then(parseType(ts, i + 2),
            LAMBDA type :
              Ok(Parameter(currentToken(ts, i).value, type.node), type.idx))

\* The do-while loop of parseParams; node is the parameter vector.
parseParamsLoop(ts, i, params) ==
  Then(parseParam(ts, i),
       LAMBDA p :
         IF currentToken(ts, p.idx).type = "RPAREN"
           THEN Ok(Append(params, p.node), p.idx)
         ELSE IF ~match(ts, p.idx, "COMMA") THEN error(p.idx)
         ELSE parseParamsLoop(ts, p.idx + 1, Append(params, p.node)))

parseParams(ts, i) ==
  Then(IF ~(currentToken(ts, i).type = "RPAREN")
       THEN parseParamsLoop(ts, i, <<>>)
       ELSE Ok(<<>>, i),
       LAMBDA p :
         IF ~match(ts, p.idx, "RPAREN") THEN error(p.idx)
         ELSE Ok(p.node, p.idx + 1))

parseProto(ts, i) ==
  IF ~match(ts, i, "IDENTIFIER") THEN error(i)
  ELSE IF ~match(ts, i + 1, "LPAREN") THEN error(i + 1)
  ELSE Then(parseParams(ts, i + 2),
            LAMBDA params :
              IF ~(currentToken(ts, params.idx).type = "MINUS") /\
                 ~(peekToken(ts, params.idx, 1).type = "GREATER")
                THEN error(params.idx)
              ELSE \* index += 2
                Then(parseType(ts, params.idx + 2),
                     LAMBDA type :
                       Ok(ProtoNode(currentToken(ts, i).value, params.node,
                                    type.node), type.idx)))

parseBlock(ts, i) ==
  IF ~match(ts, i, "LBRACE") THEN error(i)
  ELSE Then(parseBlockLoop(ts, i + 1, <<>>),
            LAMBDA b : Ok(BlockNode(b.node), b.idx))

\* Mutant: a statement that fails to parse is skipped instead of ending the
\* parse (error recovery inside a block).
parseBlockLoop_recover(ts, i, stmts) ==
  IF match(ts, i, "RBRACE") THEN Ok(stmts, i + 1)
  ELSE IF match(ts, i, "EOS") THEN error(i)
  ELSE IF ~parseStmt(ts, i).ok THEN parseBlockLoop(ts, i + 1, Append(stmts, NoNode))
  ELSE Then(parseStmt(ts, i),
            LAMBDA s : parseBlockLoop(ts, s.idx, Append(stmts, s.node)))

\* The while loop of parseBlock; node is the statement vector.
parseBlockLoop(ts, i, stmts) ==
  IF match(ts, i, "RBRACE") THEN Ok(stmts, i + 1)
  ELSE Then(parseStmt(ts, i),
            LAMBDA s : parseBlockLoop(ts, s.idx, Append(stmts, s.node)))

parseFuncDecl(ts, i) ==
  IF ~match(ts, i, "FN") THEN error(i)
  ELSE Then(parseProto(ts, i + 1),
            LAMBDA proto :
              IF match(ts, proto.idx, "SEMICOLON")
                THEN Ok(proto.node, proto.idx + 1)
              ELSE IF currentToken(ts, proto.idx).type = "LBRACE"
                THEN Then(parseBlock(ts, proto.idx),
                          LAMBDA b : Ok(FuncDeclNode(proto.node, b.node), b.idx))
              ELSE error(proto.idx))

parseReturn(ts, i) ==
  IF ~match(ts, i, "RETURN") THEN error(i)
  ELSE Then(parseExprSemi(ts, i + 1),
            LAMBDA e : Ok(ReturnNode(e.node), e.idx))

parseExprStmt(ts, i) == parseExprSemi(ts, i)

parseStmt(ts, i) ==
  IF (currentToken(ts, i).type = "IDENTIFIER" \/
      currentToken(ts, i).type = "CONST") /\
     (peekToken(ts, i, 1).type = "IDENTIFIER" \/
      peekToken(ts, i, 1).type = "COLON")
    THEN parseVarDecl(ts, i)
  ELSE IF currentToken(ts, i).type = "IDENTIFIER" /\
          peekToken(ts, i, 1).type = "EQUAL"
    THEN parseAssign(ts, i)
  ELSE IF currentToken(ts, i).type = "LBRACE" THEN parseBlock(ts, i)
  ELSE IF currentToken(ts, i).type = "FN" THEN parseFuncDecl(ts, i)
  ELSE IF currentToken(ts, i).type = "RETURN" THEN parseReturn(ts, i)
  ELSE parseExprStmt(ts, i)

(***************************************************************************)
(* Parser::parse as a state machine: one step per iteration of its loop.   *)
(***************************************************************************)
\* body.push_back(parseStmt()) when parseStmt returns.
ParseStmtOk ==
  /\ pstate = "parsing"
  /\ ~(currentToken(tokens, index).type = "EOS")
  /\ LET s == parseStmt(tokens, index) IN
       /\ s.ok
       /\ body' = Append(body, s.node)
       /\ index' = s.idx
  /\ prevIndex' = index
  /\ UNCHANGED <<tokens, pstate, result, lexerVars, codegenVars>>
  /\ UNCHANGED <<driverVars, loggerVars>>

\* parseStmt() throws ParserError: the exception leaves parse(), the local
\* body is destroyed and nothing is returned.
ParseStmtError ==
  /\ pstate = "parsing"
  /\ ~(currentToken(tokens, index).type = "EOS")
  /\ LET s == parseStmt(tokens, index) IN
       /\ ~s.ok
       /\ index' = s.idx
  /\ prevIndex' = index
  /\ body' = <<>>
  /\ pstate' = "error"
  /\ UNCHANGED <<tokens, result, lexerVars, codegenVars>>
  /\ UNCHANGED <<driverVars, loggerVars>>

\* The loop ends at EOS: return ProgramNode(body).
ParseReturn ==
  /\ pstate = "parsing"
  /\ currentToken(tokens, index).type = "EOS"
  /\ result' = ProgramNode(body)
  /\ pstate' = "done"
  /\ UNCHANGED <<tokens, index, prevIndex, body, lexerVars, codegenVars>>
  /\ UNCHANGED <<driverVars, loggerVars>>

ParserNext == ParseStmtOk \/ ParseStmtError \/ ParseReturn

(***************************************************************************)
(* The lexer (lexer.cpp).  A character is a one-character string; NUL      *)
(* stands for '\0' and VT for '\v', which a TLA+ string cannot hold.  The  *)
(* cursor of the lexer is the record [index, line, column].                *)
(***************************************************************************)
NUL == "NUL"
VT == "VT"

Digits == {"0", "1", "2", "3", "4", "5", "6", "7", "8", "9"}

Letters ==
  {"a", "b", "c", "d", "e", "f", "g", "h", "i", "j", "k", "l", "m", "n", "o",
   "p", "q", "r", "s", "t", "u", "v", "w", "x", "y", "z", "A", "B", "C", "D",
   "E", "F", "G", "H", "I", "J", "K", "L", "M", "N", "O", "P", "Q", "R", "S",
   "T", "U", "V", "W", "X", "Y", "Z"}

isdigit(c) == c \in Digits
isalpha(c) == c \in Letters
isalnum(c) == isalpha(c) \/ isdigit(c)
isspace(c) == c \in {" ", "\t", "\n", VT, "\f", "\r"}

\* the predicate parseIdentifier walks with: isalnum(c) || c == '_'
IdentifierChars == Letters \cup Digits \cup {"_"}

Cursor(i, ln, col) == [index |-> i, line |-> ln, column |-> col]

atEof(src, l) == l.index >= Len(src)

currentChar(src, l) == IF atEof(src, l) THEN NUL ELSE src[l.index + 1]

\* nextChar with a fault: a newline increments the line but the column is
\* not reset.
nextChar_noreset(src, l) ==
  IF atEof(src, l) THEN l
  ELSE IF currentChar(src, l) = "\n"
    THEN Cursor(l.index + 1, l.line + 1, l.column + 1)
  ELSE Cursor(l.index + 1, l.line, l.column + 1)

\* The cursor after nextChar(); the character the call returns is
\* currentChar before the call.
nextChar(src, l) ==
  IF atEof(src, l) THEN l
  ELSE IF currentChar(src, l) = "\n" THEN Cursor(l.index + 1, l.line + 1, 1)
  ELSE Cursor(l.index + 1, l.line, l.column + 1)

peekChar(src, l, offset) ==
  IF l.index + offset >= Len(src) THEN NUL ELSE src[l.index + offset + 1]

\* The cursor after skipWs(); the character it returns is currentChar there.
RECURSIVE skipWs(_, _)
skipWs(src, l) ==
  IF isspace(currentChar(src, l)) THEN skipWs(src, nextChar(src, l)) ELSE l

\* walk(predicate), the predicate given as the set of characters it accepts;
\* value is the string walked so far.
RECURSIVE walk(_, _, _, _)
walk(src, l, class, value) ==
  IF currentChar(src, l) \in class
    THEN walk(src, nextChar(src, l), class, value \o currentChar(src, l))
  ELSE [value |-> value, cur |-> l]

\* A token returned by a lexing procedure, with the cursor it leaves.
LexOk(tok, l) == [ok |-> TRUE, tok |-> tok, cur |-> l]

\* Lexer::error: LexicalError(line, column) thrown at cursor l.
LexicalError(l) == [ok |-> FALSE, cur |-> l]

\* Token(value, type, {line, column}) built at the cursor l.
TokenAt(value, type, l) == LexOk(Token(value, type, l.line, l.column), l)

\* The escape sequences of parseString and the characters they decode to.
Escapes ==
  ("n" :> "\n") @@ ("r" :> "\r") @@ ("t" :> "\t") @@ ("\\" :> "\\") @@
  ("\"" :> "\"")

RECURSIVE parseStringLoop(_, _, _)

\* parseEscape with a fault: an unknown escape is taken as the character
\* after the backslash.
parseEscape_lenient(src, l, value) ==
  IF currentChar(src, l) \in DOMAIN Escapes
    THEN parseStringLoop(src, nextChar(src, l),
                         value \o Escapes[currentChar(src, l)])
  ELSE parseStringLoop(src, nextChar(src, l), value \o currentChar(src, l))

\* `switch (nextChar())` of parseString; l is the cursor after the backslash
\* has been skipped.
parseEscape(src, l, value) ==
  IF currentChar(src, l) \in DOMAIN Escapes
    THEN parseStringLoop(src, nextChar(src, l),
                         value \o Escapes[currentChar(src, l)])
  ELSE LexicalError(nextChar(src, l))

\* The while loop of parseString and what follows it.
parseStringLoop(src, l, value) ==
  IF currentChar(src, l) # "\"" /\ ~atEof(src, l)
    THEN IF currentChar(src, l) = "\\"
           THEN parseEscape(src, nextChar(src, l), value)
         ELSE parseStringLoop(src, nextChar(src, l),
                              value \o currentChar(src, l))
  ELSE IF atEof(src, l) THEN LexicalError(l)
  ELSE TokenAt(value, "STRING", nextChar(src, l))

parseString(src, l) == parseStringLoop(src, nextChar(src, l), "")

\* The decimal part of parseNumber; w is the result of the first walk.
parseDecimal(src, w) ==
  IF currentChar(src, w.cur) = "." /\ isdigit(peekChar(src, w.cur, 1))
    THEN walk(src, nextChar(src, w.cur), Digits, w.value \o ".")
  ELSE w

NumberToken(w) == TokenAt(w.value, "NUMBER", w.cur)

parseNumber(src, l) ==
  NumberToken(parseDecimal(src, walk(src, l, Digits, "")))

\* The keyword lookup of parseIdentifier; w is the result of the walk.
IdentifierToken(w) ==
  IF w.value \in DOMAIN RESERVED
    THEN TokenAt(w.value, RESERVED[w.value], w.cur)
  ELSE TokenAt(w.value, "IDENTIFIER", w.cur)

parseIdentifier(src, l) == IdentifierToken(walk(src, l, IdentifierChars, ""))

\* The lookup of parseSymbol; l is the cursor after the final nextChar().
SymbolToken(value, l) ==
  IF value \in DOMAIN ATOMIC THEN TokenAt(value, ATOMIC[value], l)
  ELSE TokenAt(value, "INVALID", l)

\* parseSymbol with a fault: no look-ahead for a two-character operator.
parseSymbol_single(src, l) == SymbolToken(currentChar(src, l), nextChar(src, l))

\* parseSymbol with a fault: an INVALID token is returned without the final
\* nextChar().
parseSymbol_stay(src, l) ==
  IF peekChar(src, l, 1) = "="
    THEN IF (currentChar(src, l) \o "=") \in DOMAIN ATOMIC
           THEN SymbolToken(currentChar(src, l) \o "=",
                            nextChar(src, nextChar(src, l)))
         ELSE SymbolToken(currentChar(src, l) \o "=", l)
  ELSE IF currentChar(src, l) \in DOMAIN ATOMIC
    THEN SymbolToken(currentChar(src, l), nextChar(src, l))
  ELSE SymbolToken(currentChar(src, l), l)

parseSymbol(src, l) ==
  IF peekChar(src, l, 1) = "="
    THEN SymbolToken(currentChar(src, l) \o "=",
                     nextChar(src, nextChar(src, l)))
  ELSE SymbolToken(currentChar(src, l), nextChar(src, l))

\* nextToken after skipWs() has returned; l is the cursor skipWs leaves.
dispatch(src, l) ==
  IF currentChar(src, l) = NUL THEN TokenAt("", "EOS", l)
  ELSE IF isdigit(currentChar(src, l)) THEN parseNumber(src, l)
  ELSE IF isalpha(currentChar(src, l)) \/ currentChar(src, l) = "_"
    THEN parseIdentifier(src, l)
  ELSE IF currentChar(src, l) = "\"" THEN parseString(src, l)
  ELSE parseSymbol(src, l)

nextToken(src, l) == dispatch(src, skipWs(src, l))

(***************************************************************************)
(* Lexer::allTokens as a state machine: one step per nextToken call.       *)
(***************************************************************************)
\* tokens.emplace_back(token) for a token that is not EOS.
LexToken ==
  /\ lexState = "lexing"
  /\ LET t == nextToken(source, Cursor(lexIndex, line, column)) IN
       /\ t.ok
       /\ ~(t.tok.type = "EOS")
       /\ lexTokens' = Append(lexTokens, t.tok)
       /\ lexIndex' = t.cur.index
       /\ line' = t.cur.line
       /\ column' = t.cur.column
       /\ consumed' = t.cur.index - lexIndex
  /\ UNCHANGED <<source, lexState, parserVars, codegenVars>>
  /\ UNCHANGED <<driverVars, loggerVars>>

\* nextToken returns EOS: the loop ends, the END token is pushed and the
\* vector is returned.
LexEnd ==
  /\ lexState = "lexing"
  /\ LET t == nextToken(source, Cursor(lexIndex, line, column)) IN
       /\ t.ok
       /\ t.tok.type = "EOS"
       /\ lexTokens' =
            Append(lexTokens, Token("END", "EOS", t.cur.line, t.cur.column))
       /\ lexIndex' = t.cur.index
       /\ line' = t.cur.line
       /\ column' = t.cur.column
       /\ consumed' = t.cur.index - lexIndex
  /\ lexState' = "done"
  /\ UNCHANGED <<source, parserVars, codegenVars>>
  /\ UNCHANGED <<driverVars, loggerVars>>

\* nextToken throws LexicalError: the exception leaves allTokens, the local
\* vector is destroyed and nothing is returned.
LexError ==
  /\ lexState = "lexing"
  /\ LET t == nextToken(source, Cursor(lexIndex, line, column)) IN
       /\ ~t.ok
       /\ lexIndex' = t.cur.index
       /\ line' = t.cur.line
       /\ column' = t.cur.column
       /\ consumed' = t.cur.index - lexIndex
  /\ lexTokens' = <<>>
  /\ lexState' = "error"
  /\ UNCHANGED <<source, parserVars, codegenVars>>
  /\ UNCHANGED <<driverVars, loggerVars>>

LexerNext == LexToken \/ LexEnd \/ LexError

\* Lexer::allTokens as a function of the source: the loop of nextToken calls
\* run to its end.
RECURSIVE allTokensLoop(_, _, _)

\* One iteration of the loop of allTokens; t is what nextToken returned.
allTokensStep(src, t, toks) ==
  IF ~t.ok THEN [ok |-> FALSE, tokens |-> <<>>]
  ELSE IF t.tok.type = "EOS"
    THEN [ok |-> TRUE,
          tokens |-> Append(toks, Token("END", "EOS", t.cur.line, t.cur.column))]
  ELSE allTokensLoop(src, t.cur, Append(toks, t.tok))

allTokensLoop(src, l, toks) == allTokensStep(src, nextToken(src, l), toks)

\* Lexer(src).allTokens(): the vector returned, or ok = FALSE for a
\* LexicalError.
allTokens(src) == allTokensLoop(src, Cursor(0, 1, 1), <<>>)

(***************************************************************************)
(* The emitter (codegen.cpp, codegen.hpp).  The Codegen object is the      *)
(* record cg: the tables constants and globals, the current function       *)
(* record currentFunc, and of LLVM the module (its functions and global    *)
(* variables, in order of creation), the insertion block of the builder    *)
(* and the instructions the builder has created (code).  A visit returns   *)
(* the value it yields and the Codegen object it leaves; ok = FALSE is an  *)
(* exception or an abort, with cg the object at that moment.               *)
(***************************************************************************)
EmptyTable == [n \in {} |-> n]

\* table[name] = v
Put(table, name, v) ==
  [n \in DOMAIN table \cup {name} |-> IF n = name THEN v ELSE table[n]]

contains(table, name) == name \in DOMAIN table

\* The values a visit yields: RetT (types.hpp) holds nothing (monostate), an
\* llvm::Value * or an llvm::Function *.
Monostate == [kind |-> "monostate"]
NullValue == [kind |-> "null"]
Constant(type, val) == [kind |-> "const", type |-> type, val |-> val]
Instruction(id) == [kind |-> "inst", id |-> id]
Argument(func, name) == [kind |-> "arg", func |-> func, name |-> name]
GlobalVariable(id) == [kind |-> "global", id |-> id]
LLVMFunction(id) == [kind |-> "function", id |-> id]

\* The empty std::unique_ptr<types::Function>.
NullFunc == [null |-> TRUE]

\* types::Function(name, paramTypes, retType), then llvmFunc = func.
Function(name, paramTypes, retType, func) ==
  [null |-> FALSE, name |-> name, llvmFunc |-> func, retType |-> retType,
   paramTypes |-> paramTypes, constants |-> EmptyTable, locals |-> EmptyTable]

\* The Codegen object after its constructor: initTable() has registered
\* true and false and declared printf.
NewCodegen ==
  [constants |-> Put(Put(EmptyTable, "true", Constant("i1", 1)),
                     "false", Constant("i1", 0)),
   globals |-> EmptyTable,
   currentFunc |-> NullFunc,
   module |-> <<[kind |-> "function", name |-> "printf", params |-> <<>>,
                 paramTypes |-> <<"i8*">>, retType |-> "i32"]>>,
   insertBlock |-> [null |-> TRUE],
   code |-> <<>>]

CgOk(val, cg) == [ok |-> TRUE, val |-> val, cg |-> cg]

\* An exception thrown, or the process aborted, with the Codegen object cg.
Throw(err, cg) == [ok |-> FALSE, err |-> err, cg |-> cg]

\* Codegen::error
CodegenError(cg) == Throw("CodegenError", cg)

\* std::get<llvm::Value *>(r): std::bad_variant_access when r holds no
\* llvm::Value *.
getValue(r) ==
  IF r.ok /\ r.val.kind \in {"monostate", "function"}
    THEN Throw("bad_variant_access", r.cg)
  ELSE r

\* std::get<llvm::Function *>(r)
getFunction(r) ==
  IF r.ok /\ r.val.kind # "function" THEN Throw("bad_variant_access", r.cg)
  ELSE r

\* llvm::cast<llvm::Constant>(v.val): for a value that is no constant the
\* cast fails an assertion when LLVM is built with assertions and is
\* undefined otherwise, where the pointer is used as it is.
castConstant(v) ==
  IF v.val.kind = "const" THEN v
  ELSE IF llvmAsserts THEN Throw("abort", v.cg)
  ELSE v

\* The builder creates an instruction (at the insertion block, if any).
Insert(cg, inst) ==
  [cg EXCEPT !.code = Append(@, [inst |-> inst, block |-> cg.insertBlock])]

\* The value of the instruction the next Insert creates.
NextInst(cg) == Instruction(Len(cg.code) + 1)

CreateLoad(ptr, name, cg) ==
  CgOk(NextInst(cg), Insert(cg, [op |-> "load", ptr |-> ptr, name |-> name]))

\* std::stoi, std::stof and std::stod on the literals of the programs lowered; a
\* float is written <<integer part, tenths>>.
stoi ==
  ("1" :> 1) @@ ("2" :> 2) @@ ("3" :> 3) @@ ("4" :> 4) @@ ("5" :> 5) @@
  ("6" :> 6) @@ ("1.5" :> 1)
stof == ("1" :> <<1, 0>>) @@ ("2" :> <<2, 0>>) @@ ("1.5" :> <<1, 5>>)
stod == ("1" :> <<1, 0>>) @@ ("2" :> <<2, 0>>) @@ ("1.5" :> <<1, 5>>)

getType(type) ==
  IF type.dataType = "INTEGER" THEN "i32"
  ELSE IF type.dataType = "FLOAT" THEN "f32"
  ELSE IF type.dataType = "DOUBLE" THEN "f64"
  ELSE IF type.dataType = "BOOL" THEN "i1"
  ELSE IF type.dataType = "STRING" THEN "i8*"
  ELSE IF type.dataType = "VOID" THEN "void"
  ELSE "nullptr"

\* A use of the llvm::Type * that getType returned, by LLVM: for the nullptr
\* of an unknown type the use is undefined; it ends the process when LLVM is
\* built with assertions and the pointer is used as it is otherwise.
useType(type, cg) ==
  IF type = "nullptr" /\ llvmAsserts THEN Throw("abort", cg)
  ELSE CgOk(Monostate, cg)

\* createString: a private global holding the characters, cast to i8*.
createString(value, cg) ==
  CgOk(Constant("i8*", [str |-> Len(cg.module) + 1]),
       [cg EXCEPT !.module =
          Append(@, [kind |-> "global", name |-> "str", type |-> "array",
                     init |-> value, linkage |-> "private"])])

loadGlobal(name, cg) ==
  IF contains(cg.globals, name) THEN CreateLoad(cg.globals[name], name, cg)
  ELSE CodegenError(cg)

visitLiteral(node, cg) ==
  IF node.type = "INTEGER" THEN CgOk(Constant("i32", stoi[node.value]), cg)
  ELSE IF node.type = "FLOAT" THEN CgOk(Constant("f32", stof[node.value]), cg)
  ELSE IF node.type = "DOUBLE" THEN CgOk(Constant("f64", stod[node.value]), cg)
  ELSE IF node.type = "BOOL"
    THEN CgOk(Constant("i1", IF node.value = "true" THEN 1 ELSE 0), cg)
  ELSE IF node.type = "STRING" THEN createString(node.value, cg)
  ELSE CgOk(Monostate, cg)

visitVariable(node, cg) ==
  IF contains(cg.globals, node.name) THEN loadGlobal(node.name, cg)
  ELSE IF contains(cg.constants, node.name)
    THEN CgOk(cg.constants[node.name], cg)
  ELSE IF ~cg.currentFunc.null /\ contains(cg.currentFunc.locals, node.name)
    THEN CreateLoad(cg.currentFunc.locals[node.name], node.name, cg)
  ELSE IF ~cg.currentFunc.null /\ contains(cg.currentFunc.constants, node.name)
    THEN CgOk(cg.currentFunc.constants[node.name], cg)
  ELSE CodegenError(cg)

\* CreateAlloca, CreateStore(value, alloca) and locals[name] = alloca in the
\* current function.
declareLocal(cg, type, name, value) ==
  [Insert(Insert(cg, [op |-> "alloca", type |-> type, name |-> name]),
          [op |-> "store", value |-> value, ptr |-> NextInst(cg)])
     EXCEPT !.currentFunc.locals = Put(@, name, NextInst(cg))]

\* constants[name] = value, new llvm::GlobalVariable and globals[name] of a
\* global definition.
declareGlobal(cg, type, name, value) ==
  [cg EXCEPT
     !.constants = Put(@, name, value),
     !.module = Append(@, [kind |-> "global", name |-> name, type |-> type,
                           init |-> value, linkage |-> "external"]),
     !.globals = Put(@, name, GlobalVariable(Len(cg.module) + 1))]

RECURSIVE visit(_, _)
RECURSIVE visitBlockLoop(_, _, _)

\* The local definition of visit(VarDeclNode); v is the lowered value.
localVarDecl(node, v) ==
  IF v.val.kind = "null" THEN CodegenError(v.cg)
  ELSE IF node.isConst
    THEN Then(castConstant(v),
              LAMBDA c :
                CgOk(Monostate,
                     [c.cg EXCEPT !.currentFunc.constants =
                        Put(@, node.name, c.val)]))
  ELSE Then(useType(getType(node.type), v.cg),
            LAMBDA t :
              CgOk(Monostate,
                   declareLocal(v.cg, getType(node.type), node.name, v.val)))

\* visit(VarDeclNode) at module scope with a fault: the definition is
\* registered before the declaration is found not to be constant.
globalVarDecl_register(node, v) ==
  IF v.val.kind = "null" THEN CodegenError(v.cg)
  ELSE IF ~node.isConst
    THEN CodegenError(declareGlobal(v.cg, getType(node.type), node.name, v.val))
  ELSE Then(castConstant(v),
            LAMBDA c :
              CgOk(Monostate,
                   declareGlobal(c.cg, getType(node.type), node.name, c.val)))

\* The global definition of visit(VarDeclNode); v is the lowered value.
globalVarDecl(node, v) ==
  IF v.val.kind = "null" THEN CodegenError(v.cg)
  ELSE IF ~node.isConst THEN CodegenError(v.cg)
  ELSE Then(castConstant(v),
            LAMBDA c :
              CgOk(Monostate,
                   declareGlobal(c.cg, getType(node.type), node.name, c.val)))

visitVarDecl(node, cg) ==
  IF ~cg.currentFunc.null
    THEN Then(getValue(visit(node.value, cg)),
              LAMBDA v : localVarDecl(node, v))
  ELSE Then(useType(getType(node.type), cg),
            LAMBDA t : Then(getValue(visit(node.value, cg)),
                            LAMBDA v : globalVarDecl(node, v)))

\* visit(AssignNode) after the value has been lowered, with a fault: the
\* constants of the current function are not looked at.
assignStore_locals(node, v) ==
  IF v.val.kind = "null" THEN CodegenError(v.cg)
  ELSE IF ~v.cg.currentFunc.null
    THEN IF ~contains(v.cg.currentFunc.locals, node.name)
           THEN CodegenError(v.cg)
         ELSE CgOk(Monostate,
                   Insert(v.cg, [op |-> "store", value |-> v.val,
                                 ptr |-> v.cg.currentFunc.locals[node.name]]))
  ELSE CodegenError(v.cg)

\* visit(AssignNode) after the value has been lowered to v.
assignStore(node, v) ==
  IF v.val.kind = "null" THEN CodegenError(v.cg)
  ELSE IF ~v.cg.currentFunc.null
    THEN IF contains(v.cg.currentFunc.constants, node.name)
           THEN CodegenError(v.cg)
         ELSE IF ~contains(v.cg.currentFunc.locals, node.name)
           THEN CodegenError(v.cg)
         ELSE CgOk(Monostate,
                   Insert(v.cg, [op |-> "store", value |-> v.val,
                                 ptr |-> v.cg.currentFunc.locals[node.name]]))
  ELSE CodegenError(v.cg)

visitAssign(node, cg) ==
  IF contains(cg.constants, node.name) THEN CodegenError(cg)
  ELSE IF contains(cg.globals, node.name) THEN CodegenError(cg)
  ELSE Then(getValue(visit(node.value, cg)),
            LAMBDA v : assignStore(node, v))

\* llvm::FunctionType::get and llvm::Function::Create of visit(ProtoNode).
createFunction(node, cg) ==
  CgOk(LLVMFunction(Len(cg.module) + 1),
       [cg EXCEPT !.module =
          Append(@, [kind |-> "function", name |-> node.name,
                     params |-> [k \in 1..Len(node.params) |->
                                   node.params[k].name],
                     paramTypes |-> [k \in 1..Len(node.params) |->
                                       getType(node.params[k].type)],
                     retType |-> getType(node.retType)])])

visitProto(node, cg) ==
  IF \E k \in 1..Len(node.params) :
       ~useType(getType(node.params[k].type), cg).ok
    THEN Throw("abort", cg)
  ELSE Then(useType(getType(node.retType), cg),
            LAMBDA t : createFunction(node, cg))

visitBlockLoop(stmts, k, cg) ==
  IF k > Len(stmts) THEN CgOk(Monostate, cg)
  ELSE Then(visit(stmts[k], cg),
            LAMBDA s : visitBlockLoop(stmts, k + 1, s.cg))

visitBlock(node, cg) == visitBlockLoop(node.body, 1, cg)

\* The loop of visit(FuncDeclNode) over func->args(): a stack slot for each
\* argument, from the k-th on.
RECURSIVE declareArgs(_, _, _, _)
declareArgs(cg, func, params, k) ==
  IF k > Len(params) THEN cg
  ELSE declareArgs(declareLocal(cg, cg.module[func.id].paramTypes[k],
                                params[k], Argument(func, params[k])),
                   func, params, k + 1)

\* visit(FuncDeclNode) after the prototype has been lowered to f: the new
\* current function, the entry block and the arguments.
enterFunction(node, f) ==
  declareArgs([f.cg EXCEPT
                 !.currentFunc =
                    Function(node.proto.name,
                             f.cg.module[f.val.id].paramTypes,
                             f.cg.module[f.val.id].retType, f.val),
                 !.insertBlock = [func |-> f.val, name |-> "entry"]],
              f.val, f.cg.module[f.val.id].params, 1)

\* visit(FuncDeclNode) with a fault: the caller's record is not restored.
visitFuncDecl_keep(node, cg) ==
  Then(getFunction(visit(node.proto, cg)),
       LAMBDA f :
         Then(visit(node.body, enterFunction(node, f)),
              LAMBDA b : CgOk(f.val, b.cg)))

\* prev is the record moved out of currentFunc; it is moved back when the
\* body has been lowered, and lost when the body throws.
visitFuncDecl(node, cg) ==
  Then(getFunction(visit(node.proto, cg)),
       LAMBDA f :
         Then(visit(node.body, enterFunction(node, f)),
              LAMBDA b :
                CgOk(f.val, [b.cg EXCEPT !.currentFunc = f.cg.currentFunc])))

\* Codegen::error with the message of an operator that is not lowered.
InvalidOperator(cg) ==
  [ok |-> FALSE, err |-> "CodegenError", msg |-> "Invalid operator", cg |-> cg]

\* v->getType(): the IR type of a value the emitter holds.
typeOf(v, cg) ==
  IF v.kind = "const" THEN v.type
  ELSE IF v.kind = "arg"
    THEN LET f == cg.module[v.func.id] IN
           f.paramTypes[CHOOSE k \in 1..Len(f.params) : f.params[k] = v.name]
  ELSE IF v.kind = "inst"
    THEN LET i == cg.code[v.id].inst IN
           IF i.op = "load"
             THEN IF i.ptr.kind = "inst" THEN cg.code[i.ptr.id].inst.type
                  ELSE IF i.ptr.kind = "global" THEN cg.module[i.ptr.id].type
                  ELSE "ptr"
           ELSE IF i.op = "alloca" THEN "ptr"
           ELSE i.type
  ELSE "ptr"

\* Integer types and their widths.
IntBits == ("i1" :> 1) @@ ("i32" :> 32)

\* An i32 is held as the int that std::stoi gave to llvm::APInt(32, v, true),
\* an i1 as 0 or 1.
MaxInt32 == 2147483647

\* v as a value of w bits.
wrap(v, w) ==
  IF w = 1 THEN v % 2
  ELSE IF v > MaxInt32 THEN v - MaxInt32 - MaxInt32 - 2
  ELSE IF v < -MaxInt32 - 1 THEN v + MaxInt32 + MaxInt32 + 2
  ELSE v

\* a < b for the unsigned readings of a and b.
ult(a, b) == IF (a < 0) = (b < 0) THEN a < b ELSE b < 0

\* The instruction and, for a comparison, the predicate each operator of
\* visit(BinaryNode) creates.
BinaryOps ==
  ("+" :> <<"add", "">>) @@ ("-" :> <<"sub", "">>) @@ ("*" :> <<"mul", "">>) @@
  ("/" :> <<"fdiv", "">>) @@ ("<" :> <<"icmp", "ult">>) @@
  (">" :> <<"icmp", "ugt">>) @@ ("==" :> <<"icmp", "eq">>) @@
  ("!=" :> <<"icmp", "ne">>) @@ ("<=" :> <<"icmp", "ule">>) @@
  (">=" :> <<"icmp", "uge">>)

\* The constant folder of the builder on two integer constants of w bits.
foldBinary(op, a, b, w) ==
  IF op[1] = "add" THEN wrap(a + b, w)
  ELSE IF op[1] = "sub" THEN wrap(a - b, w)
  ELSE IF op[1] = "mul" THEN wrap(a * b, w)
  ELSE IF op[2] = "ult" THEN IF ult(a, b) THEN 1 ELSE 0
  ELSE IF op[2] = "ugt" THEN IF ult(b, a) THEN 1 ELSE 0
  ELSE IF op[2] = "eq" THEN IF a = b THEN 1 ELSE 0
  ELSE IF op[2] = "ne" THEN IF a # b THEN 1 ELSE 0
  ELSE IF op[2] = "ule" THEN IF ~ult(b, a) THEN 1 ELSE 0
  ELSE IF ~ult(a, b) THEN 1 ELSE 0

\* builder->CreateAdd, CreateSub, CreateMul, CreateFDiv and CreateICmp...:
\* constants are folded, an instruction is created otherwise.  An integer
\* operation on operands that are no integers, and FDiv on operands that are
\* no floating-point numbers, fail an assertion of LLVM or are undefined,
\* where the instruction is created as it is.
createBinary(op, lhs, rhs, cg) ==
  LET type == typeOf(lhs, cg)
      fits == IF op[1] = "fdiv" THEN type \in {"f32", "f64"}
              ELSE type \in DOMAIN IntBits
      resultType == IF op[1] = "icmp" THEN "i1" ELSE type
  IN IF ~fits /\ llvmAsserts THEN Throw("abort", cg)
     ELSE IF fits /\ lhs.kind = "const" /\ rhs.kind = "const"
       THEN IF op[1] = "fdiv"
              THEN CgOk(Constant(type, [fdiv |-> <<lhs.val, rhs.val>>]), cg)
            ELSE CgOk(Constant(resultType,
                               foldBinary(op, lhs.val, rhs.val, IntBits[type])),
                      cg)
     ELSE CgOk(NextInst(cg),
               Insert(cg, [op |-> op[1], pred |-> op[2], lhs |-> lhs,
                           rhs |-> rhs, type |-> resultType]))

\* visit(BinaryNode) after both operands have been lowered.
binaryOp(node, l, r) ==
  IF l.val.kind = "null" \/ r.val.kind = "null" THEN CodegenError(r.cg)
  ELSE IF typeOf(l.val, r.cg) # typeOf(r.val, r.cg) THEN CodegenError(r.cg)
  ELSE IF node.op \in DOMAIN BinaryOps
    THEN createBinary(BinaryOps[node.op], l.val, r.val, r.cg)
  ELSE InvalidOperator(r.cg)

visitBinary(node, cg) ==
  Then(getValue(visit(node.lhs, cg)),
       LAMBDA l : Then(getValue(visit(node.rhs, l.cg)),
                       LAMBDA r : binaryOp(node, l, r)))

\* builder->CreateNeg and CreateNot: 0 - v and v xor -1.
createUnary(op, v, cg) ==
  LET type == typeOf(v, cg)
      fits == type \in DOMAIN IntBits
  IN IF ~fits /\ llvmAsserts THEN Throw("abort", cg)
     ELSE IF fits /\ v.kind = "const"
       THEN CgOk(Constant(type,
                          IF op = "neg" THEN wrap(0 - v.val, IntBits[type])
                          ELSE wrap(-1 - v.val, IntBits[type])),
                 cg)
     ELSE CgOk(NextInst(cg),
               Insert(cg, [op |-> op, operand |-> v, type |-> type]))

visitUnary(node, cg) ==
  Then(getValue(visit(node.operand, cg)),
       LAMBDA v :
         IF v.val.kind = "null" THEN CodegenError(v.cg)
         ELSE IF node.op = "-" THEN createUnary("neg", v.val, v.cg)
         ELSE IF node.op = "!" THEN createUnary("not", v.val, v.cg)
         ELSE InvalidOperator(v.cg))

\* module->getFunction(name): the function of that name, or 0 for nullptr.
moduleFunction(cg, name) ==
  LET fs == {k \in 1..Len(cg.module) :
               cg.module[k].kind = "function" /\ cg.module[k].name = name}
  IN IF fs = {} THEN 0 ELSE CHOOSE k \in fs : \A j \in fs : k <= j

\* The loop of visit(CallNode) over the arguments, from the k-th on; vals are
\* the values lowered so far.
RECURSIVE visitArgs(_, _, _, _)
visitArgs(args, k, vals, cg) ==
  IF k > Len(args) THEN CgOk(vals, cg)
  ELSE Then(getValue(visit(args[k], cg)),
            LAMBDA a : visitArgs(args, k + 1, Append(vals, a.val), a.cg))

\* builder->CreateCall(callee, args): arguments that do not match the
\* parameters of the callee fail an assertion of LLVM or are undefined.
createCall(callee, a) ==
  LET f == a.cg.module[callee]
      fits == /\ Len(a.val) = Len(f.paramTypes)
              /\ \A k \in 1..Len(a.val) :
                   a.val[k].kind # "null" /\
                   typeOf(a.val[k], a.cg) = f.paramTypes[k]
  IN IF ~fits /\ llvmAsserts THEN Throw("abort", a.cg)
     ELSE CgOk(NextInst(a.cg),
               Insert(a.cg, [op |-> "call", callee |-> LLVMFunction(callee),
                             args |-> a.val, type |-> f.retType]))

visitCall(node, cg) ==
  IF moduleFunction(cg, node.callee.name) = 0 THEN CodegenError(cg)
  ELSE Then(visitArgs(node.args, 1, <<>>, cg),
            LAMBDA a : createCall(moduleFunction(cg, node.callee.name), a))

visitReturn(node, cg) ==
  Then(getValue(visit(node.value, cg)),
       LAMBDA v :
         CgOk(Monostate, Insert(v.cg, [op |-> "ret", value |-> v.val])))

\* node.accept(*this)
visit(node, cg) ==
  CASE node.kind = "Literal" -> visitLiteral(node, cg)
    [] node.kind = "VarDecl" -> visitVarDecl(node, cg)
    [] node.kind = "Assign" -> visitAssign(node, cg)
    [] node.kind = "Variable" -> visitVariable(node, cg)
    [] node.kind = "Proto" -> visitProto(node, cg)
    [] node.kind = "Block" -> visitBlock(node, cg)
    [] node.kind = "FuncDecl" -> visitFuncDecl(node, cg)
    [] node.kind = "Return" -> visitReturn(node, cg)
    [] node.kind = "Binary" -> visitBinary(node, cg)
    [] node.kind = "Unary" -> visitUnary(node, cg)
    [] node.kind = "Call" -> visitCall(node, cg)

(***************************************************************************)
(* Codegen::visit(ProgramNode) as a state machine: one step per child of   *)
(* the program.                                                            *)
(***************************************************************************)
\* child->accept(*this) returns.
CgChildOk ==
  /\ cgState = "lowering"
  /\ child <= Len(ast.body)
  /\ LET r == visit(ast.body[child], codegen) IN
       /\ r.ok
       /\ codegen' = r.cg
  /\ child' = child + 1
  /\ UNCHANGED <<ast, cgState, llvmAsserts, parserVars, lexerVars>>
  /\ UNCHANGED <<driverVars, loggerVars>>

\* child->accept(*this) throws CodegenError, which leaves the visit.
CgChildError ==
  /\ cgState = "lowering"
  /\ child <= Len(ast.body)
  /\ LET r == visit(ast.body[child], codegen) IN
       /\ ~r.ok
       /\ r.err = "CodegenError"
       /\ codegen' = r.cg
  /\ cgState' = "error"
  /\ UNCHANGED <<ast, child, llvmAsserts, parserVars, lexerVars>>
  /\ UNCHANGED <<driverVars, loggerVars>>

\* child->accept(*this) ends the process: a failed LLVM assertion or an
\* exception other than CodegenError.
CgChildAbort ==
  /\ cgState = "lowering"
  /\ child <= Len(ast.body)
  /\ LET r == visit(ast.body[child], codegen) IN
       /\ ~r.ok
       /\ r.err # "CodegenError"
       /\ codegen' = r.cg
  /\ cgState' = "abort"
  /\ UNCHANGED <<ast, child, llvmAsserts, parserVars, lexerVars>>
  /\ UNCHANGED <<driverVars, loggerVars>>

\* The loop over node.getBody() ends.
CgReturn ==
  /\ cgState = "lowering"
  /\ child > Len(ast.body)
  /\ cgState' = "done"
  /\ UNCHANGED <<ast, child, codegen, llvmAsserts, parserVars, lexerVars>>
  /\ UNCHANGED <<driverVars, loggerVars>>

CodegenNext == CgChildOk \/ CgChildError \/ CgChildAbort \/ CgReturn

(***************************************************************************)
(* The driver: main and Compiler::compile.                                 *)
(***************************************************************************)
\* The intermediate object of Compiler::native and Compiler::compile.
ObjectFile(path) == path \o ".o"

\* An exception that main does not catch: std::terminate.
Terminate ==
  /\ mainPc' = "exit"
  /\ exitCode' = "abort"

\* args.readInputFile(): IOError when the file cannot be opened.
ReadInputFile ==
  /\ mainPc = "read"
  /\ stages' = Append(stages, "read")
  /\ \E opened \in BOOLEAN :
       IF opened THEN mainPc' = "lex" /\ exitCode' = exitCode
       ELSE Terminate
  /\ UNCHANGED <<printAst, printIr, outputPath, disk, stdout, compiled>>
  /\ UNCHANGED <<parserVars, lexerVars, codegenVars, loggerVars>>

\* lexer.allTokens(): LexerError on a character or a string it rejects.
MainLex ==
  /\ mainPc = "lex"
  /\ stages' = Append(stages, "lex")
  /\ \E lexed \in BOOLEAN :
       IF lexed THEN mainPc' = "parse" /\ exitCode' = exitCode
       ELSE Terminate
  /\ UNCHANGED <<printAst, printIr, outputPath, disk, stdout, compiled>>
  /\ UNCHANGED <<parserVars, lexerVars, codegenVars, loggerVars>>

\* parser.parse(): ParserError on a token it rejects.
MainParse ==
  /\ mainPc = "parse"
  /\ stages' = Append(stages, "parse")
  /\ \E parsed \in BOOLEAN :
       IF parsed THEN mainPc' = "print_ast" /\ exitCode' = exitCode
       ELSE Terminate
  /\ UNCHANGED <<printAst, printIr, outputPath, disk, stdout, compiled>>
  /\ UNCHANGED <<parserVars, lexerVars, codegenVars, loggerVars>>

\* The log level main sets before anything else.
MainLevel == "ERROR"

\* utils::logging::getLevel() >= utils::LogLevel::INFO in main
MainPrints == MainLevel \in {"INFO", "DEBUG", "WARNING", "ERROR"}

\* The PrettyPrinter block of main, then the construction of the emitter.
MainPrintAst ==
  /\ mainPc = "print_ast"
  /\ stdout' = IF MainPrints THEN Append(stdout, "ast") ELSE stdout
  /\ mainPc' = "emit"
  /\ UNCHANGED <<printAst, printIr, outputPath, stages, disk, exitCode,
                 compiled>>
  /\ UNCHANGED <<parserVars, lexerVars, codegenVars, loggerVars>>

\* ast->accept(codegen): CodegenError, std::bad_variant_access or an abort
\* in the emitter ends the process.
MainEmit ==
  /\ mainPc = "emit"
  /\ stages' = Append(stages, "emit")
  /\ \E lowered \in BOOLEAN :
       IF lowered THEN mainPc' = "print_ir" /\ exitCode' = exitCode
       ELSE Terminate
  /\ UNCHANGED <<printAst, printIr, outputPath, disk, stdout, compiled>>
  /\ UNCHANGED <<parserVars, lexerVars, codegenVars, loggerVars>>

\* llvm::outs() << codegen.getModule(), then compiler.compile is called.
MainPrintIr ==
  /\ mainPc = "print_ir"
  /\ stdout' = IF MainPrints THEN Append(stdout, "ir") ELSE stdout
  /\ mainPc' = "native"
  /\ UNCHANGED <<printAst, printIr, outputPath, stages, disk, exitCode,
                 compiled>>
  /\ UNCHANGED <<parserVars, lexerVars, codegenVars, loggerVars>>

\* What Compiler::native can meet: no target for the triple, the object file
\* cannot be opened, the target cannot emit an object file, or none of these.
NativeOutcomes == {"no_target", "open_failed", "cannot_emit", "emitted"}

\* Compiler::native: dest creates the object file when it is opened.
native(outcome) ==
  /\ disk' = IF outcome \in {"cannot_emit", "emitted"}
               THEN disk \cup {ObjectFile(outputPath)}
             ELSE disk
  /\ mainPc' = IF outcome = "emitted" THEN "link" ELSE "compiled"

\* compile: if (!native(module, outputPath)) return false;
CompileNative ==
  /\ mainPc = "native"
  /\ stages' = Append(stages, "native")
  /\ \E outcome \in NativeOutcomes : native(outcome)
  /\ UNCHANGED <<printAst, printIr, outputPath, stdout, exitCode, compiled>>
  /\ UNCHANGED <<parserVars, lexerVars, codegenVars, loggerVars>>

\* compile: std::system("gcc <output>.o -o <output>"), and return false when
\* the result is not 0.
CompileLink ==
  /\ mainPc = "link"
  /\ stages' = Append(stages, "link")
  /\ \E linked \in BOOLEAN :
       IF linked
         THEN /\ disk' = disk \cup {outputPath}
              /\ mainPc' = "remove"
       ELSE /\ disk' = disk
            /\ mainPc' = "compiled"
  /\ UNCHANGED <<printAst, printIr, outputPath, stdout, exitCode, compiled>>
  /\ UNCHANGED <<parserVars, lexerVars, codegenVars, loggerVars>>

\* compile: std::remove of the object file, and return true.
CompileRemove ==
  /\ mainPc = "remove"
  /\ disk' = disk \ {ObjectFile(outputPath)}
  /\ compiled' = TRUE
  /\ mainPc' = "compiled"
  /\ UNCHANGED <<printAst, printIr, outputPath, stages, stdout, exitCode>>
  /\ UNCHANGED <<parserVars, lexerVars, codegenVars, loggerVars>>

\* main after compiler.compile has returned.
MainReturn ==
  /\ mainPc = "compiled"
  /\ stdout' = IF compiled THEN stdout ELSE Append(stdout, "error")
  /\ exitCode' = IF compiled THEN "0" ELSE "-1"
  /\ mainPc' = "exit"
  /\ UNCHANGED <<printAst, printIr, outputPath, stages, disk, compiled>>
  /\ UNCHANGED <<parserVars, lexerVars, codegenVars, loggerVars>>

DriverNext ==
  \/ ReadInputFile
  \/ MainLex
  \/ MainParse
  \/ MainPrintAst
  \/ MainEmit
  \/ MainPrintIr
  \/ CompileNative
  \/ CompileLink
  \/ CompileRemove
  \/ MainReturn

(***************************************************************************)
(* The loggers: verte::utils::Logger and excerpt::utils::Logger.           *)
(***************************************************************************)
MaxCalls == 2     \* calls of log methods in a run

\* The threads that log.
Threads == {1, 2}

\* enum class LogLevel of each logger, in the order of the enumerators.
LogLevel ==
  [verte |-> <<"NONE", "INFO", "DEBUG", "WARNING", "ERROR">>,
   excerpt |-> <<"NONE", "INFO", "WARNING", "ERROR">>]

Levels == {LogLevel[loggerClass][k] : k \in 1..Len(LogLevel[loggerClass])}

\* static_cast<uint8_t>(level)
Rank(level) ==
  (CHOOSE k \in 1..Len(LogLevel[loggerClass]) :
     LogLevel[loggerClass][k] = level) - 1

\* The levels of the public methods info, debug, warn and error.
Methods == Levels \ {"NONE"}

\* log: if (getLevel() < level) return;  with a fault: the test is turned
\* around.
suppressed_below(level) == Rank(globalLevel) > Rank(level)

\* log: if (getLevel() < level) return;
suppressed(level) == Rank(globalLevel) < Rank(level)

\* The four writes of log to the output stream, in order.
Parts == <<"timestamp", "prefix", "message", "newline">>

PartIndex(part) == CHOOSE k \in 1..Len(Parts) : Parts[k] = part

\* What the write of a part of call id puts on the stream.
Fragment(id, part) == [call |-> id, part |-> part]

\* logging::setLevel(level)
setLevel ==
  /\ \E level \in Levels : globalLevel' = level
  /\ UNCHANGED <<loggerClass, loggerOf, logPc, logCall, logLevel, calls,
                 output, mutex>>
  /\ UNCHANGED <<parserVars, lexerVars, codegenVars, driverVars>>

\* A thread calls info, debug, warn or error of its logger: log tests the
\* global level and returns, or goes on to write.
log(t) ==
  /\ logPc[t] = "idle"
  /\ Len(calls) < MaxCalls
  /\ \E level \in Methods :
       /\ logLevel' = level
       /\ calls' = Append(calls, ~suppressed(level))
       /\ logPc' = [logPc EXCEPT ![t] =
                      IF suppressed(level) THEN "idle"
                      ELSE IF loggerClass = "excerpt" THEN "lock"
                      ELSE Parts[1]]
  /\ logCall' = [logCall EXCEPT ![t] = Len(calls) + 1]
  /\ UNCHANGED <<loggerClass, loggerOf, globalLevel, output, mutex>>
  /\ UNCHANGED <<parserVars, lexerVars, codegenVars, driverVars>>

\* excerpt: std::lock_guard<std::mutex> lock(mutex), the mutex a member of
\* the thread's Logger object.
lock(t) ==
  /\ logPc[t] = "lock"
  /\ mutex[loggerOf[t]] = 0
  /\ mutex' = [mutex EXCEPT ![loggerOf[t]] = t]
  /\ logPc' = [logPc EXCEPT ![t] = Parts[1]]
  /\ UNCHANGED <<loggerClass, loggerOf, globalLevel, logCall, logLevel, calls,
                 output>>
  /\ UNCHANGED <<parserVars, lexerVars, codegenVars, driverVars>>

\* One output << of log; after the last one log returns, and the lock_guard
\* of the excerpt logger releases the mutex.
write(t) ==
  /\ logPc[t] \in {Parts[k] : k \in 1..Len(Parts)}
  /\ output' = Append(output, Fragment(logCall[t], logPc[t]))
  /\ IF PartIndex(logPc[t]) < Len(Parts)
       THEN /\ logPc' = [logPc EXCEPT ![t] = Parts[PartIndex(logPc[t]) + 1]]
            /\ mutex' = mutex
     ELSE /\ logPc' = [logPc EXCEPT ![t] = "idle"]
          /\ mutex' = IF loggerClass = "excerpt"
                        THEN [mutex EXCEPT ![loggerOf[t]] = 0]
                      ELSE mutex
  /\ UNCHANGED <<loggerClass, loggerOf, globalLevel, logCall, logLevel, calls>>
  /\ UNCHANGED <<parserVars, lexerVars, codegenVars, driverVars>>

LoggerNext ==
  \/ setLevel
  \/ \E t \in Threads : log(t)
  \/ \E t \in Threads : lock(t)
  \/ \E t \in Threads : write(t)

(***************************************************************************)
(* Token vectors given to the parser.                                      *)
(***************************************************************************)
MaxOps == 3       \* operators in an operand chain
MaxArgToks == 6   \* tokens between the parentheses of a call
MaxLen == 3       \* length of the exhaustively enumerated token vectors

LexemeOf(type) == CHOOSE s \in DOMAIN RESERVED : RESERVED[s] = type

Tok(type) == Token(LexemeOf(type), type, 1, 1)
Ident(name) == Token(name, "IDENTIFIER", 1, 1)
Num(v) == Token(v, "NUMBER", 1, 1)
Eos == Token("END", "EOS", 1, 1)

BinOpSeq == <<"PLUS", "MINUS", "STAR", "SLASH", "EQUAL", "NEQ_EQUAL", "LESS",
              "GREATER", "LT_EQUAL", "GT_EQUAL", "OR", "AND">>

\* a op1 b op2 c ... ;   the first operand a number or an identifier, the
\* k-th later operand the number k + 1
FirstOperands == {Num("1"), Ident("x")}

RECURSIVE ChainTail(_, _)
ChainTail(ops, k) ==
  IF k > Len(ops) THEN <<>>
  ELSE <<Tok(ops[k]), Num(ToString(k + 1))>> \o ChainTail(ops, k + 1)

Chain(a, ops) == <<a>> \o ChainTail(ops, 1)

OpSeqs(n) == [1..n -> BINARY_OPERATOR_TYPES]

ChainInputs ==
  {Chain(a, ops) \o <<Tok("SEMICOLON"), Eos>> :
     a \in FirstOperands, ops \in UNION {OpSeqs(n) : n \in 0..MaxOps}}

\* u x b y ;
UnaryInputs ==
  {<<Tok(u), x, Tok(b), Num("2"), Tok("SEMICOLON"), Eos>> :
     u \in UNARY_OPERATOR_TYPES, x \in FirstOperands,
     b \in BINARY_OPERATOR_TYPES}

\* x = expr ;
AssignInputs ==
  {<<Ident("x"), Tok("ASSIGN")>> \o Chain(a, ops) \o <<Tok("SEMICOLON"), Eos>> :
     a \in FirstOperands, ops \in UNION {OpSeqs(n) : n \in 0..1}}

\* f ( ... ) ;   with numbers, identifiers and commas between the parentheses
ArgTok(c, p) ==
  IF c = "N" THEN Num(ToString(p))
  ELSE IF c = "I" THEN Ident("y")
  ELSE Tok("COMMA")

ArgSeqs(n) == {[p \in 1..n |-> ArgTok(f[p], p)] : f \in [1..n -> {"N", "I", "C"}]}

CallInputs ==
  {<<Ident("f"), Tok("LPAREN")>> \o a \o <<Tok("RPAREN"), Tok("SEMICOLON"), Eos>> :
     a \in UNION {ArgSeqs(n) : n \in 0..MaxArgToks}}

\* f ( g ( ... ) ) ;
NestedCallInputs ==
  {<<Ident("f"), Tok("LPAREN"), Ident("g"), Tok("LPAREN")>> \o a \o
   <<Tok("RPAREN"), Tok("RPAREN"), Tok("SEMICOLON"), Eos>> :
     a \in UNION {ArgSeqs(n) : n \in 0..3}}

\* fn f ( params ) t1 t2 int ; | {}
ArrowToks ==
  {Tok("MINUS"), Tok("GREATER"), Tok("PLUS"), Tok("LESS"), Ident("x"),
   Tok("SEMICOLON"), Tok("LBRACE"), Tok("RPAREN"), Eos}

ProtoHeads ==
  {<<Tok("FN"), Ident("f"), Tok("LPAREN"), Tok("RPAREN")>>,
   <<Tok("FN"), Ident("f"), Tok("LPAREN"), Ident("a"), Tok("COLON"),
     Ident("int"), Tok("RPAREN")>>}

ProtoTails ==
  {<<Ident("int"), Tok("SEMICOLON"), Eos>>,
   <<Ident("int"), Tok("LBRACE"), Tok("RBRACE"), Eos>>,
   <<Eos>>}

ProtoInputs ==
  {h \o <<t1, t2>> \o t :
     h \in ProtoHeads, t1 \in ArrowToks, t2 \in ArrowToks, t \in ProtoTails}

\* every token vector of at most MaxLen tokens over these kinds
ParserAlphabet ==
  {Ident("x"), Num("1"), Token("s", "STRING", 1, 1), Tok("TRUE"),
   Tok("CONST"), Tok("FN"), Tok("RETURN"), Tok("IF"),
   Tok("COLON"), Tok("SEMICOLON"), Tok("COMMA"), Tok("ASSIGN"), Tok("EQUAL"),
   Tok("LPAREN"), Tok("RPAREN"), Tok("LBRACE"), Tok("RBRACE"),
   Tok("MINUS"), Tok("GREATER"), Tok("STAR"), Tok("BANG"), Tok("AND"),
   Token("@", "INVALID", 1, 1), Eos}

ShortInputs ==
  {s \o <<Eos>> : s \in UNION {[1..n -> ParserAlphabet] : n \in 0..MaxLen}}

\* well-formed programs with one token replaced, or cut short
SeedPrograms ==
  {<<Tok("FN"), Ident("f"), Tok("LPAREN"), Ident("a"), Tok("COLON"),
     Ident("int"), Tok("COMMA"), Ident("b"), Tok("COLON"), Ident("int"),
     Tok("RPAREN"), Tok("MINUS"), Tok("GREATER"), Ident("int"), Tok("LBRACE"),
     Tok("RETURN"), Ident("g"), Tok("LPAREN"), Ident("a"), Tok("COMMA"),
     Ident("b"), Tok("RPAREN"), Tok("PLUS"), Num("1"), Tok("SEMICOLON"),
     Tok("RBRACE")>>,
   <<Tok("CONST"), Ident("x"), Tok("COLON"), Ident("int"), Tok("ASSIGN"),
     Tok("LPAREN"), Num("1"), Tok("PLUS"), Num("2"), Tok("RPAREN"),
     Tok("STAR"), Num("3"), Tok("SEMICOLON"),
     Tok("LBRACE"), Ident("y"), Tok("EQUAL"), Tok("BANG"), Tok("TRUE"),
     Tok("SEMICOLON"), Tok("RBRACE")>>}

Replace(s, p, t) == [q \in 1..Len(s) |-> IF q = p THEN t ELSE s[q]]

SeedInputs ==
  {Replace(s, p, t) \o <<Eos>> :
     s \in SeedPrograms, p \in 1..20, t \in ParserAlphabet} \cup
  {SubSeq(s, 1, n) \o <<Eos>> : s \in SeedPrograms, n \in 0..20}

\* the families of token vectors the parser is run on
ParserInputs ==
  {ChainInputs, UnaryInputs, AssignInputs, CallInputs,
   NestedCallInputs, ProtoInputs, ShortInputs, SeedInputs}

\* No emitter runs.
DriverIdle ==
  /\ printAst = FALSE
  /\ printIr = FALSE
  /\ outputPath = "a.out"
  /\ mainPc = "idle"
  /\ stages = <<>>
  /\ disk = {}
  /\ stdout = <<>>
  /\ exitCode = "none"
  /\ compiled = FALSE

LoggerIdle ==
  /\ loggerClass = "verte"
  /\ loggerOf = [t \in Threads |-> 1]
  /\ globalLevel = "NONE"
  /\ logPc = [t \in Threads |-> "idle"]
  /\ logCall = [t \in Threads |-> 0]
  /\ logLevel = "NONE"
  /\ calls = <<>>
  /\ output = <<>>
  /\ mutex = [l \in Threads |-> 0]

CodegenIdle ==
  /\ ast = NoNode
  /\ child = 0
  /\ codegen = NewCodegen
  /\ cgState = "idle"
  /\ llvmAsserts = FALSE

LexerIdle ==
  /\ source = <<>>
  /\ lexIndex = 0
  /\ line = 1
  /\ column = 1
  /\ lexTokens = <<>>
  /\ lexState = "idle"
  /\ consumed = 0

\* Parser(tokens): index(0), tokens(tokens)
ParserInit ==
  /\ \E family \in ParserInputs : tokens \in family
  /\ index = 0
  /\ prevIndex = 0
  /\ body = <<>>
  /\ pstate = "parsing"
  /\ result = NoNode
  /\ LexerIdle
  /\ CodegenIdle
  /\ DriverIdle
  /\ LoggerIdle

Spec == ParserInit /\ [][ParserNext]_vars

(***************************************************************************)
(* Sources given to the lexer.                                             *)
(***************************************************************************)
MaxSrcLen == 4    \* length of the exhaustively enumerated sources

\* every source of at most MaxSrcLen characters over these
LexAlphabet == {"1", "n", " ", "\n", "\"", "\\", "=", "!", ".", ")", NUL}

ShortSources == UNION {[1..n -> LexAlphabet] : n \in 0..MaxSrcLen}

\* a program with one character replaced, or cut short
SeedSource ==
  <<"f", "n", " ", "f", "(", "a", ":", " ", "i", "n", "t", ")", " ", "-",
    ">", " ", "i", "n", "t", " ", "{", "\n", " ", " ", "r", "e", "t", "u",
    "r", "n", " ", "a", " ", "<", "=", " ", "1", ".", "5", ";", "\n", "}",
    "\n", "c", "o", "n", "s", "t", " ", "s", ":", " ", "s", "t", "r", "i",
    "n", "g", " ", "=", " ", "\"", "x", "\\", "n", "\\", "\"", "\"", ";",
    "\n">>

SeedSources ==
  {Replace(SeedSource, p, c) : p \in 1..Len(SeedSource), c \in LexAlphabet} \cup
  {SubSeq(SeedSource, 1, n) : n \in 0..Len(SeedSource)}

\* the source of each lexeme of the symbol, operator and keyword tables, alone
LexemeSources ==
  {<<"(">>, <<")">>, <<"{">>, <<"}">>, <<"[">>, <<"]">>, <<",">>, <<".">>,
   <<":">>, <<";">>, <<"=">>, <<"!">>, <<"-">>, <<"+">>, <<"*">>, <<"/">>,
   <<"%">>, <<"<">>, <<">">>, <<"<", "=">>, <<">", "=">>, <<"=", "=">>,
   <<"!", "=">>, <<"i", "f">>, <<"t", "h", "e", "n">>,
   <<"e", "l", "s", "e">>, <<"o", "r">>, <<"a", "n", "d">>,
   <<"t", "r", "u", "e">>, <<"f", "a", "l", "s", "e">>,
   <<"c", "o", "n", "s", "t">>, <<"f", "o", "r">>,
   <<"w", "h", "i", "l", "e">>, <<"f", "n">>,
   <<"r", "e", "t", "u", "r", "n">>}

\* sources with a line comment:  pre // text  followed by a newline or by
\* the end of the source
CommentSources ==
  {pre \o <<"/", "/">> \o text \o post :
     pre \in {<<>>, <<"1">>, <<"n", " ">>},
     text \in {<<>>, <<"n">>, <<" ", "1">>, <<"\"">>, <<"/", "=">>},
     post \in {<<>>, <<"\n">>, <<"\n", "1">>}}

MaxStrLen == 4    \* characters after the opening quote of a string source

\* " followed by at most MaxStrLen characters over these
StringAlphabet == {"a", "n", "r", "t", "\\", "\""}

StringSources ==
  {<<"\"">> \o s : s \in UNION {[1..n -> StringAlphabet] : n \in 0..MaxStrLen}}

\* identifier-shaped words: the names of the literal-class and sentinel
\* kinds, and words that are near a keyword
WordSources ==
  {<<"S", "T", "R", "I", "N", "G">>, <<"N", "U", "M", "B", "E", "R">>,
   <<"I", "N", "V", "A", "L", "I", "D">>,
   <<"I", "D", "E", "N", "T", "I", "F", "I", "E", "R">>,
   <<"x">>, <<"_">>, <<"i", "f", "f">>, <<"f", "n", "1">>, <<"_", "i", "f">>,
   <<"I", "f">>, <<"E", "O", "S">>, <<"o", "r", "_">>}

\* the families of sources the lexer is run on
LexerInputs ==
  {ShortSources, SeedSources, LexemeSources, CommentSources, StringSources,
   WordSources}

ParserIdle ==
  /\ tokens = <<>>
  /\ index = 0
  /\ prevIndex = 0
  /\ body = <<>>
  /\ pstate = "idle"
  /\ result = NoNode

\* Lexer(source): index(0), line(1), column(1)
LexerInit ==
  /\ \E family \in LexerInputs : source \in family
  /\ lexIndex = 0
  /\ line = 1
  /\ column = 1
  /\ lexTokens = <<>>
  /\ lexState = "lexing"
  /\ consumed = 0
  /\ ParserIdle
  /\ CodegenIdle
  /\ DriverIdle
  /\ LoggerIdle

LexSpec == LexerInit /\ [][LexerNext]_vars

(***************************************************************************)
(* Programs given to the emitter.                                          *)
(***************************************************************************)
MaxProg == 3      \* statements of a module-scope program
MaxBody == 2      \* statements of the body of the function f

IntType == TypeInfo(toEnum("int"), "int")
Lit(v) == LiteralNode(v, "INTEGER")
Var(name) == VariableNode(name)
Func(name, params, stmts) ==
  FuncDeclNode(ProtoNode(name, [k \in 1..Len(params) |->
                                  Parameter(params[k], IntType)], IntType),
               BlockNode(stmts))

\* every program of at most MaxProg statements over these: declarations of
\* x and y, assignments and a use, all at module scope
ModuleStmts ==
  {VarDeclNode(n, IntType, v, c) :
     n \in {"x", "y"}, v \in {Lit("1"), Var("x")}, c \in BOOLEAN} \cup
  {AssignNode(n, Lit("1")) : n \in {"x", "true"}} \cup
  {Var("x")}

ModulePrograms == UNION {[1..n -> ModuleStmts] : n \in 0..MaxProg}

\* the statements of function bodies; g is a function nested in the body
BodyStmts ==
  {VarDeclNode("x", IntType, v, c) : v \in {Lit("2"), Var("y")}, c \in BOOLEAN}
  \cup {VarDeclNode("y", IntType, Lit("2"), FALSE)}
  \cup {AssignNode(n, Lit("1")) : n \in {"x", "y", "true"}}
  \cup {ReturnNode(Var("x"))}
  \cup {Func("g", <<"y">>, <<VarDeclNode("x", IntType, Lit("1"), FALSE)>>),
        Func("g", <<>>, <<ReturnNode(Var("x"))>>)}

Bodies == UNION {[1..n -> BodyStmts] : n \in 0..MaxBody}

\* module-scope declarations, then the function f, then a statement that
\* uses x after f
FunctionPrograms ==
  {pre \o <<Func("f", params, stmts)>> \o post :
     pre \in {<<>>, <<VarDeclNode("x", IntType, Lit("1"), TRUE)>>,
              <<VarDeclNode("y", IntType, Lit("1"), TRUE)>>},
     params \in {<<>>, <<"x">>, <<"x", "y">>},
     stmts \in Bodies,
     post \in {<<>>, <<Func("h", <<>>, <<ReturnNode(Var("x"))>>)>>,
               <<Func("h", <<>>, <<AssignNode("x", Lit("1"))>>)>>,
               <<Var("x")>>}}

\* Programs over the type names: a declaration at module scope, and a
\* function with a parameter type, a return type and a declaration in its
\* body.  The value of a declaration is a literal of the declared type.
TypeNames == {"int", "float", "double", "string", "bool", "void", "foo"}

Type(name) == TypeInfo(toEnum(name), name)

TypedValue ==
  ("int" :> Lit("1")) @@ ("bool" :> LiteralNode("true", "BOOL")) @@
  ("string" :> LiteralNode("s", "STRING")) @@ ("foo" :> Lit("1"))

TypedDecls ==
  {VarDeclNode("x", Type(t), TypedValue[t], c) :
     t \in DOMAIN TypedValue, c \in BOOLEAN}

TypePrograms ==
  {<<d>> : d \in TypedDecls} \cup
  {<<FuncDeclNode(ProtoNode("f", params, Type(ret)), BlockNode(<<d>>))>> :
     params \in {<<>>} \cup {<<Parameter("a", Type(t))>> :
                               t \in TypeNames \ {"void"}},
     ret \in TypeNames, d \in TypedDecls}

\* Programs over the operators: return a op b and return op a in a function
\* with the parameter x, and a constant a op b at module scope.
BinaryOpStrings ==
  {"+", "-", "*", "/", "==", "!=", "<", ">", "<=", ">=", "or", "and"}

UnaryOpStrings == {"+", "-", "!"}

Operands == {Lit("1"), Lit("2"), Var("x"), LiteralNode("true", "BOOL")}

Expressions ==
  {BinaryNode(a, b, op) : a \in Operands, b \in Operands, op \in BinaryOpStrings}
  \cup {UnaryNode(a, op) : a \in Operands, op \in UnaryOpStrings}
  \cup {CallNode(Var(f), args) :
          f \in {"f", "g"}, args \in {<<>>, <<Lit("1")>>, <<Var("x")>>}}

ExprPrograms ==
  {<<Func("f", <<"x">>, <<ReturnNode(e)>>)>> : e \in Expressions} \cup
  {<<VarDeclNode("y", IntType, e, TRUE), Var("y")>> : e \in Expressions}

\* the families of programs the emitter is run on
CodegenInputs == {ModulePrograms, FunctionPrograms, TypePrograms, ExprPrograms}

\* Codegen(context, module), then ast->accept(codegen)
CodegenInit ==
  /\ \E family \in CodegenInputs : \E stmts \in family : ast = ProgramNode(stmts)
  /\ child = 1
  /\ codegen = NewCodegen
  /\ cgState = "lowering"
  /\ llvmAsserts \in BOOLEAN
  /\ ParserIdle
  /\ LexerIdle
  /\ DriverIdle
  /\ LoggerIdle

CgSpec == CodegenInit /\ [][CodegenNext]_vars

(***************************************************************************)
(* Runs of the driver.                                                     *)
(***************************************************************************)
\* outputFile of main: "a.out" when -o is not given
OutputPaths == {"a.out", "prog"}

\* main after the ArgParser has parsed the command line
DriverInit ==
  /\ printAst \in BOOLEAN
  /\ printIr \in BOOLEAN
  /\ outputPath \in OutputPaths
  /\ mainPc = "read"
  /\ stages = <<>>
  /\ disk = {}
  /\ stdout = <<>>
  /\ exitCode = "none"
  /\ compiled = FALSE
  /\ ParserIdle
  /\ LexerIdle
  /\ CodegenIdle
  /\ LoggerIdle

DriverSpec == DriverInit /\ [][DriverNext]_vars

(***************************************************************************)
(* Threads that log.                                                       *)
(***************************************************************************)
\* each thread has its own Logger object, or (the excerpt logger, whose
\* objects hold a mutex) the threads share one; the objects write to the same
\* stream
LoggerInit ==
  /\ loggerClass \in DOMAIN LogLevel
  /\ loggerOf \in {[t \in Threads |-> t]} \cup
                  {[t \in Threads |-> 1] : c \in {loggerClass} \ {"verte"}}
  /\ globalLevel = "NONE"
  /\ logPc = [t \in Threads |-> "idle"]
  /\ logCall = [t \in Threads |-> 0]
  /\ logLevel = "NONE"
  /\ calls = <<>>
  /\ output = <<>>
  /\ mutex = [l \in Threads |-> 0]
  /\ ParserIdle
  /\ LexerIdle
  /\ CodegenIdle
  /\ DriverIdle

LogSpec == LoggerInit /\ [][LoggerNext]_vars

(***************************************************************************)
(* Properties of the parser.                                               *)
(***************************************************************************)
ParserFinished == pstate \in {"done", "error"}

\* The node an operand token (a number or an identifier) stands for.
OperandNode(t) ==
  IF t.type = "NUMBER" THEN LiteralNode(t.value, "INTEGER")
  ELSE VariableNode(t.value)

\* The precedence table of the specification (section 4.2).
SpecPrec ==
  ("OR" :> 1) @@ ("AND" :> 1) @@ ("EQUAL" :> 2) @@ ("NEQ_EQUAL" :> 2) @@
  ("LESS" :> 3) @@ ("GREATER" :> 3) @@ ("LT_EQUAL" :> 3) @@
  ("GT_EQUAL" :> 3) @@ ("PLUS" :> 4) @@ ("MINUS" :> 4) @@ ("STAR" :> 5) @@
  ("SLASH" :> 5)

\* Number of operators of the operand chain  a op b op c ... ; EOS
ChainOps(ts) == (Len(ts) - 3) \div 2

\* ((a op1 b) op2 c) ... for the first n operators of the chain ts
RECURSIVE LeftFold(_, _)
LeftFold(ts, n) ==
  IF n = 0 THEN OperandNode(ts[1])
  ELSE BinaryNode(LeftFold(ts, n - 1), OperandNode(ts[2 * n + 1]),
                  ts[2 * n].value)

\* C1: a op1 b op2 c ; over the operators of the precedence map (or=1;
\* == != =2; < > <= >= =3; + - =4; * / =5) parses to
\* Binary(op1, a, Binary(op2, b, c)) when prec(op2) > prec(op1) and to
\* Binary(op2, Binary(op1, a, b), c) when prec(op1) > prec(op2).
C1_BinaryPrecedence ==
  (ParserFinished /\ tokens \in ChainInputs /\ ChainOps(tokens) = 2 /\
   tokens[2].type # "AND" /\ tokens[4].type # "AND") =>
    LET a == OperandNode(tokens[1])
        b == OperandNode(tokens[3])
        c == OperandNode(tokens[5])
        op1 == tokens[2]
        op2 == tokens[4]
    IN /\ SpecPrec[op2.type] > SpecPrec[op1.type] =>
            /\ pstate = "done"
            /\ result = ProgramNode(<<BinaryNode(a,
                          BinaryNode(b, c, op2.value), op1.value)>>)
       /\ SpecPrec[op1.type] > SpecPrec[op2.type] =>
            /\ pstate = "done"
            /\ result = ProgramNode(<<BinaryNode(
                          BinaryNode(a, b, op1.value), c, op2.value)>>)

\* C2: every binary operator is left-associative: a chain of operands joined
\* by binary operators of equal precedence parses to the left-nested tree
\* ((a op1 b) op2 c) ..., for chains of any bounded length.
C2_LeftAssociative ==
  (ParserFinished /\ tokens \in ChainInputs /\ ChainOps(tokens) >= 2 /\
   \A k \in 1..ChainOps(tokens) :
      SpecPrec[tokens[2 * k].type] = SpecPrec[tokens[2].type]) =>
    /\ pstate = "done"
    /\ result = ProgramNode(<<LeftFold(tokens, ChainOps(tokens))>>)

\* C3: a unary operator binds tighter than every binary operator:
\* u x b y ; parses to Binary(b, Unary(u, x), y).
C3_UnaryBindsTighter ==
  (ParserFinished /\ tokens \in UnaryInputs) =>
    /\ pstate = "done"
    /\ result = ProgramNode(<<BinaryNode(
                   UnaryNode(OperandNode(tokens[2]), tokens[1].value),
                   OperandNode(tokens[4]), tokens[3].value)>>)

\* C4: `and` is a binary operator of precedence 1 like `or`: a and b ; parses
\* to Binary('and', a, b) and chains of and/or fold left-associatively,
\* without a ParserError.
C4_AndIsBinaryOperator ==
  (ParserFinished /\ tokens \in ChainInputs /\ ChainOps(tokens) \in 1..2 /\
   tokens[2].type = "AND" /\
   \A k \in 1..ChainOps(tokens) : tokens[2 * k].type \in {"AND", "OR"}) =>
    /\ pstate = "done"
    /\ result = ProgramNode(<<LeftFold(tokens, ChainOps(tokens))>>)

\* C5: IDENT `=` expr ; is dispatched to the assignment rule and yields
\* Assign(name, expr), not an expression statement or a ParserError.
C5_AssignDispatch ==
  (ParserFinished /\ tokens \in AssignInputs /\
   \A k \in 1..Len(tokens) : tokens[k].type # "AND") =>
    /\ pstate = "done"
    /\ result = ProgramNode(<<AssignNode(tokens[1].value,
                   LeftFold(SubSeq(tokens, 3, Len(tokens)),
                            ChainOps(SubSeq(tokens, 3, Len(tokens)))))>>)

\* The tokens between the parentheses of  f ( ... ) ; EOS
CallArgToks(ts) == SubSeq(ts, 3, Len(ts) - 3)

IsComma(t) == t.type = "COMMA"
NotComma(t) == t.type # "COMMA"

\* args := expr ("," expr)*  (or nothing), every expr a single operand
GrammarArgs(a) ==
  \/ Len(a) = 0
  \/ /\ Len(a) % 2 = 1
     /\ \A p \in 1..Len(a) : IsComma(a[p]) <=> (p % 2 = 0)

\* The operands between the parentheses, in source order.
ArgNodes(a) ==
  LET ops == SelectSeq(a, NotComma) IN
  [k \in 1..Len(ops) |-> OperandNode(ops[k])]

\* The tokens between the inner parentheses of  f ( g ( ... ) ) ; EOS
NestedArgToks(ts) == SubSeq(ts, 5, Len(ts) - 4)

\* C6: an identifier immediately followed by `(` is parsed as
\* Call(Variable(name), args) with the arguments in source order, also when
\* the call is itself an argument; an identifier not followed by `(` (here:
\* every identifier argument) is parsed as Variable(name); a well-formed
\* argument list is accepted.
C6_CallPrimary ==
  /\ (ParserFinished /\ tokens \in CallInputs) =>
       /\ pstate = "done" =>
            result = ProgramNode(<<CallNode(VariableNode(tokens[1].value),
                                            ArgNodes(CallArgToks(tokens)))>>)
       /\ GrammarArgs(CallArgToks(tokens)) => pstate = "done"
  /\ (ParserFinished /\ tokens \in NestedCallInputs) =>
       /\ pstate = "done" =>
            result = ProgramNode(<<CallNode(VariableNode(tokens[1].value),
                       <<CallNode(VariableNode(tokens[3].value),
                                  ArgNodes(NestedArgToks(tokens)))>>)>>)
       /\ GrammarArgs(NestedArgToks(tokens)) => pstate = "done"

\* f ( 1 , y , 3 ) ; has been parsed to a Call with its three arguments.
C6_Witness ==
  /\ pstate = "done"
  /\ tokens \in CallInputs
  /\ Len(result.body) = 1
  /\ result.body[1].kind = "Call"
  /\ Len(result.body[1].args) = 3
  /\ result.body[1].args[1].kind = "Literal"
  /\ result.body[1].args[2].kind = "Variable"

\* C7: parseCall accepts exactly the argument lists of the grammar
\* args := expr ("," expr)* : a trailing comma or two adjacent commas raise
\* ParserError instead of producing a Call node.
C7_CallArgsGrammar ==
  (ParserFinished /\ tokens \in CallInputs) =>
    (pstate = "done" <=> GrammarArgs(CallArgToks(tokens)))

\* The two tokens after the `)` that closes the parameter list of
\* fn f ( ... ) t1 t2 ...
ArrowPos(ts) == IF ts[4].type = "RPAREN" THEN 5 ELSE 8

\* C8: parseProto accepts a prototype only when the two tokens immediately
\* after the closing `)` are MINUS followed by GREATER; any other pair
\* raises ParserError.
C8_ReturnArrow ==
  (ParserFinished /\ tokens \in ProtoInputs) =>
    (pstate = "done" =>
       /\ tokens[ArrowPos(tokens)].type = "MINUS"
       /\ tokens[ArrowPos(tokens) + 1].type = "GREATER")

\* Every node of the tree is a node the grammar can build (no null child).
RECURSIVE ValidNode(_)
ValidNode(n) ==
  CASE n.kind \in {"Literal", "Variable", "Proto"} -> TRUE
    [] n.kind = "Binary" -> ValidNode(n.lhs) /\ ValidNode(n.rhs)
    [] n.kind = "Unary" -> ValidNode(n.operand)
    [] n.kind = "Call" ->
         /\ n.callee.kind = "Variable"
         /\ \A k \in 1..Len(n.args) : ValidNode(n.args[k])
    [] n.kind \in {"VarDecl", "Assign", "Return"} -> ValidNode(n.value)
    [] n.kind = "Block" -> \A k \in 1..Len(n.body) : ValidNode(n.body[k])
    [] n.kind = "FuncDecl" ->
         /\ n.proto.kind = "Proto"
         /\ n.body.kind = "Block"
         /\ ValidNode(n.body)
    [] OTHER -> FALSE

\* C9: for every token vector ending in EOS, Parser::parse terminates and
\* either returns a Program (of well-formed statements, with the cursor at
\* EOS) or raises ParserError and returns nothing.  Termination: while the
\* parse runs, the loop either ends at EOS or parseStmt yields an outcome
\* (a node or a ParserError), and an iteration
\* that does not end the parse leaves the cursor strictly further and still
\* inside the vector.  There is no recovery (nothing can happen after the
\* error), the cursor never moves backwards and no token outside the vector
\* is read.
C9_ParserTotality ==
  /\ pstate \in {"parsing", "done", "error"}
  /\ ReadPos(tokens, index) \in 0..(Len(tokens) - 1)
  /\ index >= prevIndex
  /\ pstate = "parsing" =>
       /\ \/ currentToken(tokens, index).type = "EOS"
          \/ parseStmt(tokens, index).ok \in BOOLEAN
       /\ index < Len(tokens)
       /\ body # <<>> => index > prevIndex
  /\ ParserFinished => ~ENABLED ParserNext
  /\ pstate = "done" =>
       /\ result = ProgramNode(body)
       /\ \A k \in 1..Len(body) : ValidNode(body[k])
       /\ currentToken(tokens, index).type = "EOS"
  /\ pstate # "done" => result = NoNode

\* A ParserError raised after `index += 2` moved the cursor past the end of
\* the vector (fn f ( a : int , b : int ) - EOS).
C9_Witness ==
  /\ pstate = "error"
  /\ index >= Len(tokens)
  /\ Len(tokens) > 10

(***************************************************************************)
(* Properties of the lexer.                                                *)
(***************************************************************************)
LexerFinished == lexState \in {"done", "error"}

\* Token a is at or before token b: positions compare by line, then column.
PosLeq(a, b) == a.line < b.line \/ (a.line = b.line /\ a.column <= b.column)

\* C10: for every source, Lexer::allTokens terminates and either returns a
\* token vector whose last token, and no other, is END_OF_STREAM, at a
\* position at or after that of every earlier token, or raises LexicalError
\* and returns nothing.  Termination: while the lexer runs nextToken yields
\* an outcome (a token or a LexicalError), every call that returns a token
\* other than END_OF_STREAM or raises has consumed at least one character,
\* and the cursor stays inside the source; the one call that returns
\* END_OF_STREAM consumes nothing only when it starts at the end of input
\* (the end of the source or a '\0' character).  Nothing can happen after
\* the return or the error.
C10_LexerTotality ==
  /\ lexState \in {"lexing", "done", "error"}
  /\ lexIndex \in 0..Len(source)
  /\ consumed >= 0
  /\ lexState = "lexing" =>
       /\ nextToken(source, Cursor(lexIndex, line, column)).ok \in BOOLEAN
       /\ Len(lexTokens) <= lexIndex
       /\ lexTokens # <<>> => consumed >= 1
  /\ lexState = "error" => lexTokens = <<>> /\ consumed >= 1
  /\ lexState = "done" =>
       /\ lexTokens # <<>>
       /\ lexTokens[Len(lexTokens)] = Token("END", "EOS", line, column)
       /\ \A k \in 1..(Len(lexTokens) - 1) :
            /\ lexTokens[k].type # "EOS"
            /\ PosLeq(lexTokens[k], lexTokens[Len(lexTokens)])
       /\ consumed = 0 =>
            lexIndex = Len(source) \/ source[lexIndex + 1] = NUL
  /\ LexerFinished => ~ENABLED LexerNext

\* The whole seed program has been lexed: more than ten tokens on several
\* lines, END_OF_STREAM last.
C10_Witness ==
  /\ lexState = "done"
  /\ lexIndex = Len(source)
  /\ Len(lexTokens) > 10
  /\ lexTokens[Len(lexTokens)].line > 1

\* Newline characters among the first n characters of src.
Newlines(src, n) == {p \in 1..n : src[p] = "\n"}

\* Position of the last newline among the first n characters of src, 0 when
\* there is none.
LastNewline(src, n) ==
  IF Newlines(src, n) = {} THEN 0
  ELSE CHOOSE p \in Newlines(src, n) : \A q \in Newlines(src, n) : q <= p

\* C11: in the token vector the lexer builds, line and column of every token
\* are at least 1, the line of consecutive tokens never decreases and on the
\* same line the column never decreases; every newline consumed increments
\* the line and resets the column to 1: the lexer's line is 1 plus the
\* newlines consumed, its column is 1 plus the characters consumed since the
\* last of them.
C11_PositionsMonotonic ==
  /\ \A k \in 1..Len(lexTokens) :
       /\ lexTokens[k].line >= 1
       /\ lexTokens[k].column >= 1
  /\ \A k \in 1..(Len(lexTokens) - 1) :
       /\ lexTokens[k].line <= lexTokens[k + 1].line
       /\ lexTokens[k].line = lexTokens[k + 1].line =>
            lexTokens[k].column <= lexTokens[k + 1].column
  /\ lexState \in {"lexing", "done", "error"} =>
       /\ line = 1 + Cardinality(Newlines(source, lexIndex))
       /\ column = 1 + lexIndex - LastNewline(source, lexIndex)

\* A token on a later line lies at a smaller column than the token before
\* it: the newline between them has reset the column.
C11_Witness ==
  /\ lexState = "done"
  /\ \E k \in 1..(Len(lexTokens) - 1) :
       /\ lexTokens[k].line < lexTokens[k + 1].line
       /\ lexTokens[k].column > lexTokens[k + 1].column

\* The string a sequence of characters spells.
RECURSIVE Concat(_)
Concat(chars) ==
  IF chars = <<>> THEN "" ELSE Head(chars) \o Concat(Tail(chars))

\* The lexemes of the symbol, operator and keyword tables with their kinds.
AtomicKinds == SYMBOLS @@ OPERATORS @@ KEYWORDS

\* C12: for every lexeme L of the symbol, operator and keyword tables (the
\* two-character operators <=, >=, ==, != and the single / among them), the
\* source consisting of L alone is lexed to exactly
\* [Token(kind(L), L), END_OF_STREAM].
C12_AtomicRoundTrip ==
  /\ {Concat(s) : s \in LexemeSources} = DOMAIN AtomicKinds
  /\ (LexerFinished /\ source \in LexemeSources) =>
       /\ lexState = "done"
       /\ Len(lexTokens) = 2
       /\ lexTokens[1].type = AtomicKinds[Concat(source)]
       /\ lexTokens[1].value = Concat(source)
       /\ lexTokens[2].type = "EOS"

\* The source != has been lexed to [NEQ_EQUAL, END_OF_STREAM].
C12_Witness ==
  /\ lexState = "done"
  /\ source = <<"!", "=">>
  /\ Len(lexTokens) = 2
  /\ lexTokens[1].type = "NEQ_EQUAL"

\* C13: when a character c of the atomic table is followed by `=` and c=
\* is not a two-character operator, the lexer emits the one-character token
\* of c and then lexes `=` on its own; an INVALID token is emitted only for
\* a single character that is not in the atomic table.
C13_SymbolFallback ==
  lexState = "done" =>
    /\ \A k \in 1..Len(lexTokens) :
         lexTokens[k].type = "INVALID" =>
           \E p \in 1..Len(source) :
             /\ lexTokens[k].value = source[p]
             /\ source[p] \notin DOMAIN ATOMIC
    /\ ( /\ Len(source) = 2
         /\ source[1] \in DOMAIN ATOMIC
         /\ source[2] = "="
         /\ (source[1] \o "=") \notin DOMAIN ATOMIC ) =>
         /\ Len(lexTokens) = 3
         /\ lexTokens[1].type = ATOMIC[source[1]]
         /\ lexTokens[1].value = source[1]
         /\ lexTokens[2].type = "ASSIGN"

\* src with every line comment removed: the characters from // up to, not
\* including, the next newline.  inComment tells whether position 1 lies in
\* a comment.
RECURSIVE Uncomment(_, _)
Uncomment(src, inComment) ==
  IF src = <<>> THEN <<>>
  ELSE IF inComment
    THEN IF Head(src) = "\n" THEN <<"\n">> \o Uncomment(Tail(src), FALSE)
         ELSE Uncomment(Tail(src), TRUE)
  ELSE IF Len(src) >= 2 /\ src[1] = "/" /\ src[2] = "/"
    THEN Uncomment(Tail(Tail(src)), TRUE)
  ELSE <<Head(src)>> \o Uncomment(Tail(src), FALSE)

\* A token vector without the positions.
Lexemes(toks) ==
  [k \in 1..Len(toks) |-> [type |-> toks[k].type, value |-> toks[k].value]]

\* C14: the characters of a line comment, from // to the end of the line,
\* produce no token: the lexer returns, positions aside, the token vector
\* of the source with every // comment removed.
C14_LineCommentsSkipped ==
  (LexerFinished /\ source \in CommentSources) =>
    /\ lexState = "done"
    /\ Lexemes(lexTokens) = Lexemes(allTokens(Uncomment(source, FALSE)).tokens)

\* The five escapes of the specification and the characters they stand for.
SpecEscapes ==
  ("n" :> "\n") @@ ("r" :> "\r") @@ ("t" :> "\t") @@ ("\\" :> "\\") @@
  ("\"" :> "\"")

\* The backslash at position p of src starts an escape: the backslashes
\* just before it pair up into escapes of their own.
EscapeStart(src, p) ==
  /\ src[p] = "\\"
  /\ \E k \in 0..(p - 1) :
       /\ k % 2 = 0
       /\ \A j \in (p - k)..(p - 1) : src[j] = "\\"
       /\ (p - k = 1 \/ src[p - k - 1] # "\\")

\* The character at position p of src is the second one of an escape.
Escaped(src, p) == p > 1 /\ EscapeStart(src, p - 1)

\* What the character at position p contributes to the content.
Decoded(src, p) ==
  IF Escaped(src, p) THEN SpecEscapes[src[p]]
  ELSE IF EscapeStart(src, p) THEN ""
  ELSE src[p]

\* The content written at the positions lo..hi of src.
RECURSIVE Content(_, _, _)
Content(src, lo, hi) ==
  IF lo > hi THEN ""
  ELSE IF lo = hi THEN Decoded(src, lo)
  ELSE Content(src, lo, (lo + hi) \div 2) \o
       Content(src, (lo + hi) \div 2 + 1, hi)

Least(S) == CHOOSE m \in S : \A x \in S : m <= x

\* The string literal at the start of src (src[1] is the opening quote),
\* read as the specification describes it: ok with the decoded content and
\* the position of the closing quote, the first quote that is not part of
\* an escape; not ok when there is none or when an escape outside the five
\* comes before it.
SpecString(src) ==
  LET closing == {q \in 2..Len(src) : src[q] = "\"" /\ ~Escaped(src, q)}
      end == IF closing = {} THEN Len(src) + 1 ELSE Least(closing)
      invalid == {e \in 2..(end - 1) :
                    /\ EscapeStart(src, e)
                    /\ (e + 1 > Len(src) \/ src[e + 1] \notin DOMAIN SpecEscapes)}
  IN IF closing = {} \/ invalid # {} THEN [ok |-> FALSE, value |-> "", end |-> end]
     ELSE [ok |-> TRUE, value |-> Content(src, 2, end - 1), end |-> end]

\* C15: for a source that starts with a string literal: if the literal has
\* an escape other than \n \r \t \\ \" or no closing quote, the lexer raises
\* LexicalError and allTokens returns nothing, no partial vector either; if
\* it is well formed, the first token is one STRING token whose value is the
\* content with the escapes decoded, and the lexer has consumed exactly the
\* literal (a later error comes from a later literal).
C15_StringErrorsFatal ==
  (Len(source) >= 1 /\ source[1] = "\"") =>
    LET lit == SpecString(source) IN
      /\ ~lit.ok =>
           /\ lexTokens = <<>>
           /\ lexState # "done"
           /\ LexerFinished => lexState = "error"
      /\ (lit.ok /\ lexState # "lexing") \/ lexTokens # <<>> =>
           /\ lit.ok
           /\ lexState = "error" => lexIndex - consumed >= lit.end
           /\ lexState = "done" => Len(lexTokens) >= 2
           /\ lexTokens # <<>> =>
                /\ lexTokens[1].type = "STRING"
                /\ lexTokens[1].value = lit.value
                /\ Len(lexTokens) = 1 => lexIndex = lit.end

\* The literal "\a" has raised LexicalError.
C15_Witness ==
  /\ lexState = "error"
  /\ source = <<"\"", "\\", "a", "\"">>
  /\ lexTokens = <<>>

\* The sources of C16: the words above and the twelve keywords.
IdentifierShaped ==
  WordSources \cup {s \in LexemeSources : Concat(s) \in DOMAIN KEYWORDS}

\* C16: a lexeme of the shape [A-Za-z_][A-Za-z0-9_]* is given the keyword
\* kind when it is one of the twelve keywords and the kind IDENTIFIER
\* otherwise; in particular the words STRING, NUMBER and INVALID are
\* identifiers.
C16_KeywordLookup ==
  /\ Cardinality(DOMAIN KEYWORDS) = 12
  /\ (LexerFinished /\ source \in IdentifierShaped) =>
       /\ lexState = "done"
       /\ Len(lexTokens) = 2
       /\ lexTokens[1].value = Concat(source)
       /\ lexTokens[1].type =
            IF Concat(source) \in DOMAIN KEYWORDS
              THEN KEYWORDS[Concat(source)]
            ELSE "IDENTIFIER"

(***************************************************************************)
(* Properties of the emitter.                                              *)
(***************************************************************************)
\* The emitter is about to lower a child of the program.
Lowering == cgState = "lowering" /\ child <= Len(ast.body)

\* The child of the program being lowered, or the one whose lowering failed.
Child == ast.body[child]

\* The tables a and b agree on every name but name.
SameBut(a, b, name) ==
  /\ DOMAIN a \ {name} = DOMAIN b \ {name}
  /\ \A n \in DOMAIN a \ {name} : a[n] = b[n]

\* C17: lowering a VarDecl that is not const while no function record is
\* current raises CodegenError and leaves the tables constants and globals
\* of the emitter as they were; a const VarDecl lowered there registers its
\* name in both tables and changes no other entry.
C17_ConstAtModuleScope ==
  [][(Lowering /\ Child.kind = "VarDecl" /\ codegen.currentFunc.null) =>
       /\ ~Child.isConst =>
            /\ cgState' = "error"
            /\ codegen'.constants = codegen.constants
            /\ codegen'.globals = codegen.globals
       /\ (Child.isConst /\ child' = child + 1) =>
            /\ contains(codegen'.constants, Child.name)
            /\ contains(codegen'.globals, Child.name)
            /\ codegen'.globals[Child.name].kind = "global"
            /\ codegen'.module[codegen'.globals[Child.name].id].init =
                 codegen'.constants[Child.name]
            /\ SameBut(codegen'.constants, codegen.constants, Child.name)
            /\ SameBut(codegen'.globals, codegen.globals, Child.name)]_vars

\* A declaration that is not const has been rejected at module scope after a
\* const declaration of x was registered.
C17_Witness ==
  /\ cgState = "error"
  /\ codegen.currentFunc.null
  /\ Child.kind = "VarDecl"
  /\ ~Child.isConst
  /\ contains(codegen.globals, "x")
  /\ contains(codegen.constants, "x")

\* The emitter inside the function declared by node, when the first k
\* statements of its body have been lowered.
BodyContext(node, cg, k) ==
  Then(getFunction(visit(node.proto, cg)),
       LAMBDA f : visitBlockLoop(SubSeq(node.body.body, 1, k), 1,
                                 enterFunction(node, f)))

\* The states of the emitter in which a statement can be lowered next: at
\* module scope before the child, and inside the child when it declares a
\* function, before each statement of the body and at its end.
Contexts ==
  {codegen} \cup
  (IF Child.kind = "FuncDecl"
     THEN {r.cg : r \in {b \in {BodyContext(Child, codegen, k) :
                                  k \in 0..Len(Child.body.body)} : b.ok}}
     ELSE {})

\* The instructions created between the emitter states a and b.
Emitted(a, b) == SubSeq(b.code, Len(a.code) + 1, Len(b.code))

Stores(code) == {i \in 1..Len(code) : code[i].inst.op = "store"}

AssignedNames == {"x", "y", "z", "true", "false"}
AssignedValues == {Lit("1"), Var("x"), Var("y")}

\* What the claim says of lowering Assign(x, v) in the emitter state cg.
AssignmentRule(cg, x, v) ==
  LET r == visit(AssignNode(x, v), cg)
      value == visit(v, cg)
      moduleName == contains(cg.constants, x) \/ contains(cg.globals, x)
      funcConst == ~cg.currentFunc.null /\ contains(cg.currentFunc.constants, x)
      local == ~cg.currentFunc.null /\ contains(cg.currentFunc.locals, x)
  IN /\ (moduleName \/ funcConst \/ ~local) =>
          /\ ~r.ok
          /\ r.err = "CodegenError"
          /\ Stores(Emitted(cg, r.cg)) = {}
          /\ r.cg.currentFunc = cg.currentFunc
     /\ r.ok =>
          /\ local
          /\ ~moduleName
          /\ Emitted(value.cg, r.cg) =
               <<[inst |-> [op |-> "store", value |-> value.val,
                            ptr |-> cg.currentFunc.locals[x]],
                  block |-> cg.insertBlock]>>
     /\ (local /\ ~moduleName /\ ~funcConst /\ value.ok) => r.ok

\* C18: in every state the emitter reaches after declarations, at module
\* scope or inside a function, lowering Assign(x, v) raises CodegenError and
\* emits no store when x is a module-scope constant or global (true and
\* false included), when x is a constant of the current function, and when x
\* is no local of the current function (so always at module scope); it
\* emits a store, into the stack slot of x, only when x is a local of the
\* current function and no module-scope name.
C18_AssignmentProhibition ==
  Lowering =>
    \A cg \in Contexts : \A x \in AssignedNames : \A v \in AssignedValues :
      AssignmentRule(cg, x, v)

\* A function whose body assigns to x has been lowered to its end: the
\* assignment has emitted its store.
C18_Witness ==
  /\ cgState = "lowering"
  /\ child > 1
  /\ ast.body[child - 1].kind = "FuncDecl"
  /\ \E k \in 1..Len(ast.body[child - 1].body.body) :
       ast.body[child - 1].body.body[k] = AssignNode("x", Lit("1"))
  /\ \E i \in Stores(codegen.code) :
       codegen.code[i].inst.value = Constant("i32", 1)

ResolvedNames == {"x", "y", "z", "true"}

\* What the claim says of lowering Variable(x) in the emitter state cg: the
\* record of the current function first, then the module-scope tables.
ResolutionRule(cg, x) ==
  LET r == visit(Var(x), cg)
      f == cg.currentFunc
  IN IF ~f.null /\ contains(f.locals, x)
       THEN r = CreateLoad(f.locals[x], x, cg)
     ELSE IF ~f.null /\ contains(f.constants, x)
       THEN r = CgOk(f.constants[x], cg)
     ELSE IF contains(cg.globals, x)
       THEN r = CreateLoad(cg.globals[x], x, cg)
     ELSE IF contains(cg.constants, x)
       THEN r = CgOk(cg.constants[x], cg)
     ELSE r = CodegenError(cg)

\* C19: a Variable lowered inside a function whose name is bound both in the
\* record of the current function (a local, a parameter or a function-scope
\* constant) and at module scope (a global or a constant) yields the binding
\* of the function; the module-scope tables are used only when the function
\* record has no entry for the name.
C19_ResolutionOrder ==
  Lowering =>
    \A cg \in Contexts : \A x \in ResolvedNames : ResolutionRule(cg, x)

\* The names of the formal parameters of the function declared by node.
ParamNames(node) ==
  {node.proto.params[k].name : k \in 1..Len(node.proto.params)}

\* The names the function declared by node binds itself before the (k+1)-th
\* statement of its body: its parameters and the variables declared by the
\* first k statements.
OwnNames(node, k) ==
  ParamNames(node) \cup
  {node.body.body[j].name :
     j \in {i \in 1..k : node.body.body[i].kind = "VarDecl"}}

\* On entry to the function declared by node from the emitter state cg, its
\* prototype lowered, the current function record is a fresh one: no
\* constants, and one local, a stack slot of its own holding the argument,
\* for each formal parameter.
FreshRecord(node, cg) ==
  LET e == BodyContext(node, cg, 0)
      f == e.cg.currentFunc
  IN e.ok =>
        /\ ~f.null
        /\ f.name = node.proto.name
        /\ f.llvmFunc = LLVMFunction(Len(cg.module) + 1)
        /\ f.constants = EmptyTable
        /\ DOMAIN f.locals = ParamNames(node)
        /\ \A p \in DOMAIN f.locals :
             /\ f.locals[p].kind = "inst"
             /\ f.locals[p].id > Len(cg.code)
             /\ e.cg.code[f.locals[p].id].inst.op = "alloca"
             /\ e.cg.code[f.locals[p].id + 1].inst =
                  [op |-> "store", value |-> Argument(f.llvmFunc, p),
                   ptr |-> f.locals[p]]
        /\ \A p, q \in DOMAIN f.locals : f.locals[p] = f.locals[q] => p = q

\* Inside the function declared by node, entered from cg: a function nested
\* in the body gets a fresh record and leaves the record of node as it was,
\* and a name that is bound neither by node itself nor at module scope is
\* unknown, whatever was declared in functions lowered before.
ScopedBody(node, cg) ==
  \A k \in 0..Len(node.body.body) :
    LET b == BodyContext(node, cg, k) IN
      b.ok =>
        /\ b.cg.constants = cg.constants
        /\ b.cg.globals = cg.globals
        /\ DOMAIN b.cg.currentFunc.locals \cup DOMAIN b.cg.currentFunc.constants
             = OwnNames(node, k)
        /\ \A x \in ResolvedNames :
             (x \notin OwnNames(node, k) /\ ~contains(cg.constants, x)
                /\ ~contains(cg.globals, x)) =>
               visit(Var(x), b.cg) = CodegenError(b.cg)
        /\ (k < Len(node.body.body) /\ node.body.body[k + 1].kind = "FuncDecl") =>
             /\ FreshRecord(node.body.body[k + 1], b.cg)
             /\ LET n == visit(node.body.body[k + 1], b.cg) IN
                  n.ok => n.cg.currentFunc = b.cg.currentFunc

\* C20: lowering a FuncDecl installs a fresh current-function record, with
\* no constants and one local per formal parameter; when the lowering
\* returns the current-function record is the caller's record from before
\* (null at module scope); a name declared only in a function lowered before
\* is unknown in the function, so that its use raises CodegenError; and the
\* tables constants and globals of the emitter are not changed by the
\* FuncDecl.
C20_FunctionRecordScoping ==
  [][(Lowering /\ Child.kind = "FuncDecl") =>
       /\ FreshRecord(Child, codegen)
       /\ ScopedBody(Child, codegen)
       /\ child' = child + 1 => codegen'.currentFunc = codegen.currentFunc
       /\ codegen'.constants = codegen.constants
       /\ codegen'.globals = codegen.globals
       /\ (/\ child > 1
           /\ ast.body[child - 1].kind = "FuncDecl"
           /\ Child.body.body # <<>>
           /\ Child.body.body[1] \in
                {ReturnNode(Var(x)) : x \in OwnNames(ast.body[child - 1],
                                            Len(ast.body[child - 1].body.body))}
                \cup {AssignNode(x, Lit("1")) :
                        x \in OwnNames(ast.body[child - 1],
                                       Len(ast.body[child - 1].body.body))}
           /\ ParamNames(Child) = {}
           /\ ~contains(codegen.globals, "x")
           /\ ~contains(codegen.globals, "y")) =>
            cgState' = "error"]_vars

\* The function h, lowered after a function with the parameter x and with
\* no x at module scope, has used x: CodegenError.
C20_Witness ==
  /\ cgState = "error"
  /\ child = 2
  /\ ast.body[1].kind = "FuncDecl"
  /\ "x" \in ParamNames(ast.body[1])
  /\ Child.kind = "FuncDecl"
  /\ Child.proto.name = "h"
  /\ codegen.currentFunc.name = "h"
  /\ ~contains(codegen.globals, "x")

\* The IR type the specification gives for each known type name.
SpecTypes ==
  ("int" :> "i32") @@ ("float" :> "f32") @@ ("double" :> "f64") @@
  ("string" :> "i8*") @@ ("bool" :> "i1") @@ ("void" :> "void")

\* The lowering r from the emitter state cg is a CodegenError that has
\* created no instruction, no function and no global.
Rejected(r, cg) ==
  /\ ~r.ok
  /\ r.err = "CodegenError"
  /\ r.cg.code = cg.code
  /\ r.cg.module = cg.module

\* C21: the six known type names are mapped to i32, f32, f64, i8*, i1 and
\* void; lowering a VarDecl whose type is unknown, at module scope or in a
\* function, and lowering a prototype with a parameter or a return type that
\* is unknown, raises CodegenError and creates no allocation and no function.
C21_UnknownTypeRejected ==
  /\ \A t \in DOMAIN SpecTypes : getType(Type(t)) = SpecTypes[t]
  /\ Lowering =>
       \A cg \in Contexts :
         /\ \A c \in BOOLEAN :
              Rejected(visit(VarDeclNode("x", Type("foo"), Lit("1"), c), cg), cg)
         /\ Rejected(visit(ProtoNode("p", <<>>, Type("foo")), cg), cg)
         /\ Rejected(visit(ProtoNode("p", <<Parameter("a", Type("foo"))>>,
                                     IntType), cg), cg)

DeclaredNames == {"x", "y"}
DeclaredValues == {Lit("2"), Var("y"), BinaryNode(Lit("1"), Var("x"), "+")}

\* What the claim says of lowering VarDecl(n, int, v, c) in the emitter
\* state cg inside a function, when the lowering returns.
LocalDeclRule(cg, n, v, c) ==
  LET value == visit(v, cg)
      r == visit(VarDeclNode(n, IntType, v, c), cg)
      slot == NextInst(value.cg)
  IN r.ok =>
       /\ r.cg.constants = cg.constants
       /\ r.cg.globals = cg.globals
       /\ IF c
            THEN /\ r.cg.currentFunc.constants =
                      Put(cg.currentFunc.constants, n, value.val)
                 /\ r.cg.currentFunc.locals = cg.currentFunc.locals
                 /\ Emitted(value.cg, r.cg) = <<>>
                 /\ visit(Var(n), r.cg) = CgOk(value.val, r.cg)
          ELSE /\ r.cg.currentFunc.constants = cg.currentFunc.constants
               /\ r.cg.currentFunc.locals = Put(cg.currentFunc.locals, n, slot)
               /\ Emitted(value.cg, r.cg) =
                    <<[inst |-> [op |-> "alloca", type |-> "i32", name |-> n],
                       block |-> cg.insertBlock],
                      [inst |-> [op |-> "store", value |-> value.val,
                                 ptr |-> slot],
                       block |-> cg.insertBlock]>>
               /\ visit(Var(n), r.cg) = CreateLoad(slot, n, r.cg)

\* C27: inside a function a const VarDecl registers the lowered value in
\* the constants of the current function and creates no stack slot, and a
\* VarDecl that is not const creates a stack slot, stores the value and
\* registers the slot in the locals of the current function; the tables
\* constants and globals of the emitter are unchanged, and Variable(x)
\* lowered next in the function yields that constant, or a load of that slot.
C27_FunctionScopeVarDecl ==
  Lowering =>
    \A cg \in {b \in Contexts : ~b.currentFunc.null} :
      \A n \in DeclaredNames : \A v \in DeclaredValues : \A c \in BOOLEAN :
        LocalDeclRule(cg, n, v, c)

\* The builder's insertion point is in a basic block of the function whose
\* record is current.
InCurrentFunction(cg) ==
  /\ "func" \in DOMAIN cg.insertBlock
  /\ cg.insertBlock.func = cg.currentFunc.llvmFunc

InvalidOperatorError(r) == ~r.ok /\ "msg" \in DOMAIN r

\* C29: the parser and the emitter agree on the operator set: lowering a
\* statement of a program the parser has produced never ends in the
\* emitter's 'Invalid binary operator' or 'Invalid unary operator' error.
C29_OperatorSetsAgree ==
  pstate = "done" =>
    \A k \in 1..Len(result.body) :
      ~InvalidOperatorError(visit(result.body[k], NewCodegen))

\* Assign rejects the name as a constant of the module or of the current
\* function.
AssignRejectsConstant(cg, n) ==
  \/ contains(cg.constants, n)
  \/ ~cg.currentFunc.null /\ contains(cg.currentFunc.constants, n)

\* Variable resolves the name to a load from a stack slot of the current
\* function.
ResolvesToSlot(cg, n) ==
  LET r == visitVariable(VariableNode(n), cg) IN
    /\ r.ok
    /\ ~cg.currentFunc.null
    /\ contains(cg.currentFunc.locals, n)
    /\ Len(r.cg.code) = Len(cg.code) + 1
    /\ r.cg.code[Len(r.cg.code)].inst.op = "load"
    /\ r.cg.code[Len(r.cg.code)].inst.ptr = cg.currentFunc.locals[n]

\* C30: the current function record never holds a name both in locals and in
\* its constants, a name is in globals only if it is in the module's
\* constants, and a name that Variable resolves to a load from a stack slot is
\* never rejected by Assign as a constant.
C30_TablesDisjoint ==
  Lowering =>
    \A cg \in Contexts :
      /\ \A n \in DeclaredNames :
           /\ ~cg.currentFunc.null =>
                ~(contains(cg.currentFunc.locals, n)
                    /\ contains(cg.currentFunc.constants, n))
           /\ ResolvesToSlot(cg, n) => ~AssignRejectsConstant(cg, n)
      /\ \A n \in DOMAIN cg.globals : contains(cg.constants, n)

(***************************************************************************)
(* Properties of the driver and of the loggers.                            *)
(***************************************************************************)
\* The call of log with this number has not returned.
InProgress(id) == \E t \in Threads : logCall[t] = id /\ logPc[t] # "idle"

\* The parts a call has written to the stream, in order.
Written(id) ==
  LET own == SelectSeq(output, LAMBDA f : f.call = id)
  IN [k \in 1..Len(own) |-> own[k].part]

\* A call that has returned has written one whole line if log went on to
\* write, and nothing otherwise.
OneLinePerCall ==
  \A id \in 1..Len(calls) :
    ~InProgress(id) => Written(id) = IF calls[id] THEN Parts ELSE <<>>

\* This step is a call of log.
LogCalled == Len(calls') = Len(calls) + 1

\* The lines the tests expect of info, warn and error at each global level.
Expected ==
  [NONE |-> {}, INFO |-> {"INFO"}, WARNING |-> {"INFO", "WARNING"},
   ERROR |-> {"INFO", "WARNING", "ERROR"}]

\* A call writes iff its level is at most the global level of the state it
\* is made in.
ThresholdAsTested ==
  LogCalled =>
    /\ calls'[Len(calls')] <=> Rank(logLevel') <= Rank(globalLevel)
    /\ (globalLevel \in DOMAIN Expected /\ logLevel' \in Expected["ERROR"]) =>
         (calls'[Len(calls')] <=> logLevel' \in Expected[globalLevel])

C25_SuppressBelowLevel ==
  [][(LogCalled /\ globalLevel # "NONE") =>
       /\ calls'[Len(calls')] <=> Rank(logLevel') >= Rank(globalLevel)
       /\ logLevel' = "ERROR" => calls'[Len(calls')]
    ]_vars

\* C26: every log line is written whole: between two parts of the line of a
\* call the stream holds no part of the line of another call.
C26_AtomicLogLines ==
  \A i \in 1..Len(output) : \A k \in i..Len(output) :
    output[i].call = output[k].call =>
      \A j \in i..k : output[j].call = output[i].call

\* main has run this stage.
Ran(stage) == \E k \in 1..Len(stages) : stages[k] = stage

\* C22: with --print-ast the driver stops after parsing, so the emitter and
\* the assembler/linker never run; with --print-ir it stops after emission,
\* so the assembler/linker never runs; native compilation is reached only
\* when neither option is set.
C22_DriverShortCircuit ==
  /\ printAst => ~Ran("emit") /\ ~Ran("native") /\ ~Ran("link")
  /\ printIr => ~Ran("native") /\ ~Ran("link")

\* Compiler::compile has returned.
CompileReturned ==
  mainPc = "compiled" \/ (mainPc = "exit" /\ Ran("native"))

\* C23: whenever Compiler::compile returns, the intermediate object
\* <output>.o is not on disk: it is removed after a successful link and also
\* when object emission or linking fails, and then compile returns false and
\* the driver exits with a non-zero code.
C23_NoPartialArtifacts ==
  CompileReturned =>
    /\ ObjectFile(outputPath) \notin disk
    /\ (mainPc = "exit" /\ ~compiled) => exitCode = "-1"

====
